---- MODULE Spec2Model ----
(***************************************************************************)
(* The three stages of the sortify audio fingerprinting core:              *)
(*   generateSpectrogram (spectrogram.cpp), extractPeaks                   *)
(*   (peak_extraction.cpp) and createFingerprint (fingerprint.cpp).        *)
(*                                                                         *)
(* Every stage is a function of its arguments and of what the environment  *)
(* answers (the FFT library, the allocator, the outcome of an undefined    *)
(* float-to-unsigned conversion).  One action per stage draws the          *)
(* arguments and the environment's answers from bounded sets, runs the     *)
(* whole call and leaves the call and what it returned in the state.       *)
(*                                                                         *)
(* Numbers.  float values are modelled by exact rationals chosen so that   *)
(* the float arithmetic of the code is exact on them: overlap is a dyadic  *)
(* fraction <<num, den>>, frequencies and magnitudes are small integers,   *)
(* peak times are counted in quarters of a time unit.  size_t is 64 bits   *)
(* and unsigned int 32 bits; values of those widths are kept as 16-bit     *)
(* limbs, most significant first.                                          *)
(*                                                                         *)
(* currentLogLevel and logFunction are the static members of Logger, the   *)
(* only state of the library that outlives a call; logged is what the call *)
(* in progress delivered to a log sink.  earlier remembers the first run   *)
(* of the whole pipeline, to compare later runs with it.  threads holds,   *)
(* for each thread of a caller that runs the library on several threads,   *)
(* the call it is in and what is left of it.  setters remembers the        *)
(* argument of the latest setLogLevel and of the latest setLogFunction.    *)
(***************************************************************************)
EXTENDS Integers, Sequences, FiniteSets, TLC

VARIABLES op, args, env, ret, currentLogLevel, logFunction, logged, earlier,
          threads, setters

vars == <<op, args, env, ret, currentLogLevel, logFunction, logged, earlier,
          threads, setters>>

(***************************************************************************)
(* Bounds of the model.                                                    *)
(***************************************************************************)
MaxSamples == 5
MaxWindow == 6
MaxRate == 6
MaxFreq == 4

\* overlap values <<num, den>>: -1/4, 0, 1/2, 7/8, 1, 5/4
OverlapValues ==
    {<<0 - 1, 4>>, <<0, 1>>, <<1, 2>>, <<7, 8>>, <<1, 1>>, <<5, 4>>}

Min(a, b) == IF a < b THEN a ELSE b
Max(a, b) == IF a > b THEN a ELSE b

(***************************************************************************)
(* Result<T> (result.hpp).  std::optional<T> is a sequence of length 0     *)
(* (nullopt) or 1.                                                         *)
(***************************************************************************)
createSuccess(val) ==
    [success |-> TRUE, value |-> <<val>>, errorMessage |-> ""]

createFailure(message) ==
    [success |-> FALSE, value |-> <<>>, errorMessage |-> message]

(***************************************************************************)
(* What a call did: it returned a Result, or an exception left it.         *)
(*   allocated   - the spectrogram matrix was requested from the allocator *)
(*   transformed - number of windows whose transform completed             *)
(***************************************************************************)
Returned(result, allocated, transformed) ==
    [kind |-> "returned", result |-> result,
     allocated |-> allocated, transformed |-> transformed]

Thrown(what, allocated) ==
    [kind |-> what, result |-> createFailure(what),
     allocated |-> allocated, transformed |-> 0]

(***************************************************************************)
(* 64-bit and 32-bit unsigned arithmetic on 16-bit limbs.                  *)
(***************************************************************************)
LimbBase == 2^16

\* (size_t)a - (size_t)b modulo 2^64, for 0 <= a, b < 2^16
SizeSub(a, b) ==
    IF a >= b
    THEN <<0, 0, 0, a - b>>
    ELSE <<LimbBase - 1, LimbBase - 1, LimbBase - 1, LimbBase - (b - a)>>

\* 64-bit x / s for 0 < s < 2^15 (schoolbook short division)
SizeDiv(x, s) ==
    LET q1 == x[1] \div s
        r1 == x[1] % s
        q2 == (r1 * LimbBase + x[2]) \div s
        r2 == (r1 * LimbBase + x[2]) % s
        q3 == (r2 * LimbBase + x[3]) \div s
        r3 == (r2 * LimbBase + x[3]) % s
        q4 == (r3 * LimbBase + x[4]) \div s
    IN  <<q1, q2, q3, q4>>

\* 64-bit x + 1 modulo 2^64
SizeInc(x) ==
    LET c4 == IF x[4] + 1 = LimbBase THEN 1 ELSE 0
        c3 == IF x[3] + c4 = LimbBase THEN 1 ELSE 0
        c2 == IF x[2] + c3 = LimbBase THEN 1 ELSE 0
    IN  <<(x[1] + c2) % LimbBase, (x[2] + c3) % LimbBase,
          (x[3] + c4) % LimbBase, (x[4] + 1) % LimbBase>>

\* conversion size_t -> unsigned int: the low 32 bits
ToUnsigned(x) == <<x[3], x[4]>>

IsZero(u) == u[1] = 0 /\ u[2] = 0

(***************************************************************************)
(* Logger (logger.hpp, logger.cpp).  enum class LogLevel numbers its       *)
(* levels from 0; a std::function is the name of its target, NullFunction  *)
(* when it is empty.                                                       *)
(***************************************************************************)
DEBUG == 0
INFO == 1
WARNING == 2
ERROR == 3
FATAL == 4

LogLevels == {DEBUG, INFO, WARNING, ERROR, FATAL}

NullFunction == "nullptr"

\* switch (level) { case LogLevel::DEBUG: levelStr = "DEBUG"; ... }
LevelStr(level) ==
    CASE level = DEBUG -> "DEBUG"
      [] level = INFO -> "INFO"
      [] level = WARNING -> "WARNING"
      [] level = ERROR -> "ERROR"
      [] level = FATAL -> "FATAL"

\* Logger::log after the level test (lines 45-65): the delivery, and where
deliver(level, message) ==
    IF logFunction # NullFunction
    THEN <<[sink |-> logFunction, level |-> level, text |-> message]>>
    ELSE IF level >= ERROR
    THEN <<[sink |-> "std::cerr", level |-> level,
            text |-> "[" \o LevelStr(level) \o "] " \o message]>>
    ELSE <<[sink |-> "std::cout", level |-> level,
            text |-> "[" \o LevelStr(level) \o "] " \o message]>>

\* log dropping a message at the current level (<= for <)
logAbove(level, message) ==
    IF level <= currentLogLevel THEN <<>>
    ELSE deliver(level, message)

\* Logger::log(level, message): what it delivers, and where
log(level, message) ==
    IF level < currentLogLevel THEN <<>>
    ELSE deliver(level, message)

\* Logger::info(message) for each message of a sequence, in order
RECURSIVE info(_, _)
info(messages, k) ==
    IF k > Len(messages) THEN <<>>
    ELSE log(INFO, messages[k]) \o info(messages, k + 1)

(***************************************************************************)
(* generateSpectrogram (spectrogram.cpp)                                   *)
(***************************************************************************)

\* unsigned int stepSize = static_cast<unsigned int>(windowSize * (1.0f - overlap));
\* if (stepSize == 0) stepSize = 1;
StepSize(windowSize, overlap) ==
    LET stepSize == (windowSize * (overlap[2] - overlap[1])) \div overlap[2]
    IN  IF stepSize = 0 THEN 1 ELSE stepSize

\* NumWindows without the + 1
NumWindowsNoLast(numSamples, windowSize, stepSize) ==
    ToUnsigned(SizeDiv(SizeSub(numSamples, windowSize), stepSize))

\* NumWindows with one window more
NumWindowsOneMore(numSamples, windowSize, stepSize) ==
    ToUnsigned(SizeInc(SizeInc(SizeDiv(SizeSub(numSamples, windowSize), stepSize))))

\* unsigned int numWindows = (samples.size() - windowSize) / stepSize + 1;
NumWindows(numSamples, windowSize, stepSize) ==
    ToUnsigned(SizeInc(SizeDiv(SizeSub(numSamples, windowSize), stepSize)))

\* unsigned int binSize = sampleRate / windowSize;
BinSize(sampleRate, windowSize) == sampleRate \div windowSize

\* static_cast<unsigned int>(std::ceil(minFreq / binSize)); the conversion of
\* an infinity or a NaN (binSize = 0) is undefined: ub is what it produced.
MinBin(minFreq, binSize, ub) ==
    IF binSize = 0 THEN ub ELSE (minFreq + binSize - 1) \div binSize

\* std::min(static_cast<unsigned int>(std::floor(maxFreq / binSize)), windowSize / 2u)
MaxBin(maxFreq, binSize, windowSize, ub) ==
    Min(IF binSize = 0 THEN ub ELSE maxFreq \div binSize, windowSize \div 2)

\* ArgumentError with overlap 1.0 let through (> for >=)
ArgumentErrorOverlapOne(a) ==
    IF a.numSamples = 0 THEN "Empty audio samples provided"
    ELSE IF a.sampleRate = 0 THEN "Sample rate cannot be zero"
    ELSE IF a.windowSize = 0 THEN "Window size cannot be zero"
    ELSE IF a.overlap[1] < 0 \/ a.overlap[1] > a.overlap[2]
         THEN "Overlap must be between 0.0 and 1.0 (exclusive)"
    ELSE IF a.minFreq < 0 THEN "Minimum frequency cannot be negative"
    ELSE IF a.maxFreq <= a.minFreq
         THEN "Maximum frequency must be greater than minimum frequency"
    ELSE ""

\* The argument checks, in the order of the code: the reason of the first one
\* that fails, "" when all pass.
ArgumentError(a) ==
    IF a.numSamples = 0 THEN "Empty audio samples provided"
    ELSE IF a.sampleRate = 0 THEN "Sample rate cannot be zero"
    ELSE IF a.windowSize = 0 THEN "Window size cannot be zero"
    ELSE IF a.overlap[1] < 0 \/ a.overlap[1] >= a.overlap[2]
         THEN "Overlap must be between 0.0 and 1.0 (exclusive)"
    ELSE IF a.minFreq < 0 THEN "Minimum frequency cannot be negative"
    ELSE IF a.maxFreq <= a.minFreq
         THEN "Maximum frequency must be greater than minimum frequency"
    ELSE ""

\* if (maxBin <= minBin) return failure
BinRangeRejected(minBin, maxBin) == maxBin <= minBin

\* unsigned int numBins = maxBin - minBin + 1;
NumBins(minBin, maxBin) == maxBin - minBin + 1

\* Spectrogram spectrogram(numBins, std::vector<float>(numWindows, 0.0f));
\* a cell is <<>> while it holds its initial 0.0f.
ZeroCell == <<>>

InitialSpectrogram(numBins, numWindows) ==
    [binIdx \in 1..numBins |-> [windowIdx \in 1..numWindows |-> ZeroCell]]

\* The allocator serves a row of fewer than 2^16 floats and answers
\* std::bad_alloc to a larger one (the wrapped window counts are 2^29 and more).
Allocatable(numWindows) == numWindows[1] = 0

\* std::abs(windowSamples[sourceBinIdx]) after the transform of window
\* windowIdx: the magnitude is kept as the coefficient it was taken from.
Magnitude(windowIdx, sourceBinIdx) == <<windowIdx, sourceBinIdx>>

\* bool fft(x, errorMessage): "" when it returns true, else the errorMessage
\* it set.  The environment makes the call for window e.fftFailAt fail.
fft(windowSize, windowIdx, e) ==
    IF windowSize <= 1 THEN ""
    ELSE IF e.fftFailAt = windowIdx THEN e.fftReason
    ELSE ""

\* unsigned int sampleIdx = windowIdx * stepSize + i;
SampleIdx(windowIdx, stepSize, i) == windowIdx * stepSize + i

\* the positions of window windowIdx that take the zero-padding branch:
\* those with !(sampleIdx < samples.size())
ZeroPadded(windowIdx, stepSize, windowSize, numSamples) ==
    {i \in 0..(windowSize - 1) : ~(SampleIdx(windowIdx, stepSize, i) < numSamples)}

\* for (binIdx ...) if (sourceBinIdx < windowSamples.size() / 2)
\*     spectrogram[binIdx][windowIdx] = magnitude;
StoreColumn(spectrogram, windowIdx, minBin, windowSize) ==
    [binIdx \in 1..Len(spectrogram) |->
        IF minBin + (binIdx - 1) < windowSize \div 2
        THEN [spectrogram[binIdx] EXCEPT
                 ![windowIdx + 1] = Magnitude(windowIdx, minBin + (binIdx - 1))]
        ELSE spectrogram[binIdx]]

\* FftFailure leaving the loop instead of the function (break for return)
FftFailureBreaks(spectrogram, fftError, windowIdx) ==
    Returned(createSuccess(spectrogram), TRUE, windowIdx)

\* if (!fft(windowSamples, fftError))
\*     return Result<Spectrogram>::createFailure("FFT error: " + fftError);
FftFailure(spectrogram, fftError, windowIdx) ==
    Returned(createFailure("FFT error: " \o fftError), TRUE, windowIdx)

\* if (spectrogram.empty() || spectrogram[0].empty()) failure else success
Finish(spectrogram, numWindows) ==
    IF Len(spectrogram) = 0 \/ Len(spectrogram[1]) = 0
    THEN Returned(createFailure("Failed to generate spectrogram data"),
                  TRUE, numWindows)
    ELSE Returned(createSuccess(spectrogram), TRUE, numWindows)

\* for (windowIdx = 0; windowIdx < numWindows; ++windowIdx) { ... }
RECURSIVE ProcessWindows(_, _, _, _, _, _)
ProcessWindows(windowIdx, spectrogram, numWindows, minBin, windowSize, e) ==
    IF windowIdx >= numWindows
    THEN Finish(spectrogram, numWindows)
    ELSE LET fftError == fft(windowSize, windowIdx, e)
         IN  IF fftError # ""
             THEN FftFailure(spectrogram, fftError, windowIdx)
             ELSE ProcessWindows(windowIdx + 1,
                                 StoreColumn(spectrogram, windowIdx, minBin, windowSize),
                                 numWindows, minBin, windowSize, e)

generateSpectrogram(a, e) ==
    IF ArgumentError(a) # ""
    THEN Returned(createFailure(ArgumentError(a)), FALSE, 0)
    ELSE
    LET stepSize == StepSize(a.windowSize, a.overlap)
        numWindows == NumWindows(a.numSamples, a.windowSize, stepSize)
    IN  IF IsZero(numWindows)
        THEN Returned(createFailure("Sample size too small for given window size"),
                      FALSE, 0)
        ELSE
        LET binSize == BinSize(a.sampleRate, a.windowSize)
            minBin == MinBin(a.minFreq, binSize, e.ubMinBin)
            maxBin == MaxBin(a.maxFreq, binSize, a.windowSize, e.ubMaxBin)
        IN  IF BinRangeRejected(minBin, maxBin)
            THEN Returned(createFailure(
                     "Invalid frequency range for given window size and sample rate"),
                     FALSE, 0)
            ELSE IF ~Allocatable(numWindows)
            THEN Thrown("std::bad_alloc", TRUE)
            ELSE ProcessWindows(0,
                     InitialSpectrogram(NumBins(minBin, maxBin), numWindows[2]),
                     numWindows[2], minBin, a.windowSize, e)

\* The messages generateSpectrogram passes to Logger::info (lines 170 and
\* 213): the first once the matrix is allocated, the second before a success.
GenMessages(a, e, out) ==
    IF out.kind # "returned" \/ ~out.allocated THEN <<>>
    ELSE
    LET numWindows == NumWindows(a.numSamples, a.windowSize,
                                 StepSize(a.windowSize, a.overlap))[2]
        binSize == BinSize(a.sampleRate, a.windowSize)
        numBins == NumBins(MinBin(a.minFreq, binSize, e.ubMinBin),
                           MaxBin(a.maxFreq, binSize, a.windowSize, e.ubMaxBin))
    IN  <<"Generating spectrogram: " \o ToString(numWindows) \o " windows, "
              \o ToString(numBins) \o " frequency bins">>
        \o (IF out.result.success
            THEN <<"Spectrogram generation complete: "
                       \o ToString(Len(out.result.value[1])) \o "x"
                       \o ToString(Len(out.result.value[1][1]))>>
            ELSE <<>>)

(***************************************************************************)
(* The arguments and the environment of a generateSpectrogram call.        *)
(* Only the length of the samples decides what the call does with them.    *)
(***************************************************************************)
SpectrogramArgs ==
    [numSamples : 0..MaxSamples, sampleRate : 0..MaxRate,
     windowSize : 0..MaxWindow, overlap : OverlapValues,
     minFreq : (0 - 1)..MaxFreq, maxFreq : 0..MaxFreq]

NoEnv == [fftFailAt |-> 0 - 1, fftReason |-> "", ubMinBin |-> 0, ubMaxBin |-> 0]

FftReasons == {"Memory allocation failed for FFT", "Failed to create FFT plan"}

\* The conversions are undefined only when binSize = 0; every outcome above
\* windowSize / 2 acts like windowSize / 2 + 1.
UbValues(a) ==
    IF ArgumentError(a) = "" /\ BinSize(a.sampleRate, a.windowSize) = 0
    THEN 0..(a.windowSize \div 2 + 1)
    ELSE {0}

\* The transform of any window the call reaches may fail.
FftFailPoints(a, ubMin, ubMax) ==
    LET quiet == generateSpectrogram(a, [NoEnv EXCEPT !.ubMinBin = ubMin,
                                                      !.ubMaxBin = ubMax])
    IN  IF quiet.kind = "returned" /\ quiet.result.success
        THEN 0..(quiet.transformed - 1)
        ELSE {}

SpectrogramEnvs(a) ==
    UNION {
        {[NoEnv EXCEPT !.ubMinBin = ubMin, !.ubMaxBin = ubMax]}
        \cup
        {[fftFailAt |-> k, fftReason |-> r, ubMinBin |-> ubMin, ubMaxBin |-> ubMax] :
            k \in FftFailPoints(a, ubMin, ubMax), r \in FftReasons}
        : ubMin \in UbValues(a), ubMax \in UbValues(a)}

GenerateSpectrogram ==
    /\ op = "none"
    /\ \E a \in SpectrogramArgs :
        \E e \in SpectrogramEnvs(a) :
            /\ op' = "generateSpectrogram"
            /\ args' = a
            /\ env' = e
            /\ ret' = generateSpectrogram(a, e)
            /\ logged' = info(GenMessages(a, e, generateSpectrogram(a, e)), 1)
    /\ UNCHANGED <<currentLogLevel, logFunction, earlier, threads, setters>>

(***************************************************************************)
(* Peak (audio_fingerprint.hpp).  frequency and magnitude are the float    *)
(* values themselves; time is the float value counted in quarters.         *)
(***************************************************************************)
TimeDen == 2 * 2

Peak(frequency, time, magnitude) ==
    [frequency |-> frequency, time |-> time, magnitude |-> magnitude]

(***************************************************************************)
(* extractPeaks (peak_extraction.cpp).  A spectrogram is a sequence of     *)
(* rows, spectrogram[f + 1][t + 1] the magnitude of bin f in window t.     *)
(***************************************************************************)

\* FreqBands with the products rounded to the nearest whole number
FreqBandsRounded(numFreqBins) ==
    << <<0, (numFreqBins + 5) \div 10>>,
       <<(numFreqBins + 5) \div 10, (numFreqBins * 25 + 50) \div 100>>,
       <<(numFreqBins * 25 + 50) \div 100, (numFreqBins * 4 + 5) \div 10>>,
       <<(numFreqBins * 4 + 5) \div 10, (numFreqBins * 6 + 5) \div 10>>,
       <<(numFreqBins * 6 + 5) \div 10, (numFreqBins * 8 + 5) \div 10>>,
       <<(numFreqBins * 8 + 5) \div 10, numFreqBins>> >>

\* const std::vector<std::pair<unsigned, unsigned>> freqBands = { ... };
\* static_cast<unsigned int>(numFreqBins * 0.1) and so on: the double product
\* truncated, which for these row counts is the floor of the exact product.
FreqBands(numFreqBins) ==
    << <<0, numFreqBins \div 10>>,
       <<numFreqBins \div 10, (numFreqBins * 25) \div 100>>,
       <<(numFreqBins * 25) \div 100, (numFreqBins * 4) \div 10>>,
       <<(numFreqBins * 4) \div 10, (numFreqBins * 6) \div 10>>,
       <<(numFreqBins * 6) \div 10, (numFreqBins * 8) \div 10>>,
       <<(numFreqBins * 8) \div 10, numFreqBins>> >>

\* for (const auto& band : freqBands) { if (band.first >= band.second) ...;
\* if (band.second > numFreqBins) ... }: the reason of the first band that is
\* refused, "" when every band passes.
RECURSIVE BandError(_, _, _)
BandError(freqBands, b, numFreqBins) ==
    IF b > Len(freqBands) THEN ""
    ELSE IF freqBands[b][1] >= freqBands[b][2]
    THEN "Invalid frequency band: [" \o ToString(freqBands[b][1]) \o ", "
             \o ToString(freqBands[b][2]) \o "]"
    ELSE IF freqBands[b][2] > numFreqBins
    THEN "Frequency band exceeds spectrogram size: " \o ToString(freqBands[b][2])
             \o " > " \o ToString(numFreqBins)
    ELSE BandError(freqBands, b + 1, numFreqBins)

\* for (f = band.first; f < band.second && f < numFreqBins; ++f)
\*     if (spectrogram[f][t] > maxPeak.magnitude) { maxPeak = ...; foundPeak = true; }
\* The value is <<maxPeak, foundPeak>>.
RECURSIVE BandMax(_, _, _, _, _, _)
BandMax(spectrogram, t, f, last, maxPeak, foundPeak) ==
    IF ~(f < last /\ f < Len(spectrogram)) THEN <<maxPeak, foundPeak>>
    ELSE IF spectrogram[f + 1][t + 1] > maxPeak.magnitude
    THEN BandMax(spectrogram, t, f + 1, last,
                 Peak(f, t * TimeDen, spectrogram[f + 1][t + 1]), TRUE)
    ELSE BandMax(spectrogram, t, f + 1, last, maxPeak, foundPeak)

\* std::vector<Peak> bandPeaks of window t: one candidate per band that found one
RECURSIVE BandPeaks(_, _, _, _)
BandPeaks(spectrogram, t, freqBands, b) ==
    IF b > Len(freqBands) THEN <<>>
    ELSE LET found == BandMax(spectrogram, t, freqBands[b][1], freqBands[b][2],
                              Peak(0, t * TimeDen, 0), FALSE)
         IN  (IF found[2] THEN <<found[1]>> ELSE <<>>)
             \o BandPeaks(spectrogram, t, freqBands, b + 1)

(***************************************************************************)
(* Single-precision arithmetic on the magnitudes, which the model keeps    *)
(* as whole numbers below 2^27.  A float has a significand of              *)
(* FLT_MANT_DIG bits; a sum or a quotient is rounded to the nearest float, *)
(* a tie to the one with the even significand.                             *)
(***************************************************************************)
FLT_MANT_DIG == 24

RECURSIVE Log2(_)
\* the exponent of v >= 1: 2^Log2(v) <= v < 2^(Log2(v) + 1)
Log2(v) == IF v < 2 THEN 0 ELSE 1 + Log2(v \div 2)

\* the whole number nearest to a / b, a tie going to the even one
RoundHalfEven(a, b) ==
    LET q == a \div b
        r == a % b
    IN  IF 2 * r < b THEN q
        ELSE IF 2 * r > b THEN q + 1
        ELSE IF q % 2 = 0 THEN q ELSE q + 1

\* float(a) + float(b)
FloatAdd(a, b) ==
    IF a + b < 2^FLT_MANT_DIG THEN a + b
    ELSE LET ulp == 2^(Log2(a + b) - (FLT_MANT_DIG - 1))
         IN  RoundHalfEven(a + b, ulp) * ulp

\* float(a) / float(n) for a >= n >= 1, as <<numerator, denominator>>
FloatDiv(a, n) ==
    LET exponent == Log2(a \div n)
    IN  IF exponent <= FLT_MANT_DIG - 1
        THEN LET scale == 2^((FLT_MANT_DIG - 1) - exponent)
             IN  <<RoundHalfEven(a * scale, n), scale>>
        ELSE LET ulp == 2^(exponent - (FLT_MANT_DIG - 1))
             IN  <<RoundHalfEven(a, n * ulp) * ulp, 1>>

\* float avgMagnitude = 0.0f; for (peak : bandPeaks) avgMagnitude += peak.magnitude;
\* the value after the first k candidates
RECURSIVE SumMagnitude(_, _)
SumMagnitude(bandPeaks, k) ==
    IF k = 0 THEN 0
    ELSE FloatAdd(SumMagnitude(bandPeaks, k - 1), bandPeaks[k].magnitude)

\* AvgMagnitude dividing by the number of bands, not of candidates
AvgMagnitudeOverBands(bandPeaks) ==
    FloatDiv(SumMagnitude(bandPeaks, Len(bandPeaks)), 6)

\* avgMagnitude /= bandPeaks.size();
AvgMagnitude(bandPeaks) ==
    FloatDiv(SumMagnitude(bandPeaks, Len(bandPeaks)), Len(bandPeaks))

\* AboveAverage keeping a candidate equal to the average (>= for >)
AboveAverageOrEqual(peak, bandPeaks) ==
    LET avgMagnitude == AvgMagnitude(bandPeaks)
    IN  peak.magnitude * avgMagnitude[2] >= avgMagnitude[1]

\* if (peak.magnitude > avgMagnitude)
AboveAverage(peak, bandPeaks) ==
    LET avgMagnitude == AvgMagnitude(bandPeaks)
    IN  peak.magnitude * avgMagnitude[2] > avgMagnitude[1]

\* ColumnPeaks with bandPeaks still holding the candidates of the last window
ColumnPeaksWithLast(spectrogram, t, freqBands) ==
    LET bandPeaks == BandPeaks(spectrogram, t, freqBands, 1)
    IN  IF Len(bandPeaks) = 0 THEN <<>>
        ELSE SelectSeq(bandPeaks,
                 LAMBDA peak : AboveAverage(peak,
                     bandPeaks \o BandPeaks(spectrogram, Len(spectrogram[1]) - 1,
                                            freqBands, 1)))

\* the peaks window t appends: none when bandPeaks is empty (continue)
ColumnPeaks(spectrogram, t, freqBands) ==
    LET bandPeaks == BandPeaks(spectrogram, t, freqBands, 1)
    IN  IF Len(bandPeaks) = 0 THEN <<>>
        ELSE SelectSeq(bandPeaks, LAMBDA peak : AboveAverage(peak, bandPeaks))

\* AllPeaks leaving the loop at a window without candidate (break for continue)
RECURSIVE AllPeaksStopAtSilent(_, _, _, _)
AllPeaksStopAtSilent(spectrogram, t, numTimeWindows, freqBands) ==
    IF t >= numTimeWindows THEN <<>>
    ELSE IF Len(BandPeaks(spectrogram, t, freqBands, 1)) = 0 THEN <<>>
    ELSE ColumnPeaks(spectrogram, t, freqBands)
         \o AllPeaksStopAtSilent(spectrogram, t + 1, numTimeWindows, freqBands)

\* AllPeaks putting each window's peaks in front of the earlier ones
RECURSIVE AllPeaksPrepended(_, _, _, _)
AllPeaksPrepended(spectrogram, t, numTimeWindows, freqBands) ==
    IF t >= numTimeWindows THEN <<>>
    ELSE AllPeaksPrepended(spectrogram, t + 1, numTimeWindows, freqBands)
         \o ColumnPeaks(spectrogram, t, freqBands)

\* for (unsigned int t = 0; t < numTimeWindows; ++t) { ... }
RECURSIVE AllPeaks(_, _, _, _)
AllPeaks(spectrogram, t, numTimeWindows, freqBands) ==
    IF t >= numTimeWindows THEN <<>>
    ELSE ColumnPeaks(spectrogram, t, freqBands)
         \o AllPeaks(spectrogram, t + 1, numTimeWindows, freqBands)

\* PeaksResult without the empty check
PeaksResultUnchecked(peaks) == createSuccess(peaks)

\* if (peaks.empty()) failure else success
PeaksResult(peaks) ==
    IF Len(peaks) = 0
    THEN createFailure("No significant peaks found in spectrogram")
    ELSE createSuccess(peaks)

extractPeaks(spectrogram) ==
    IF Len(spectrogram) = 0 \/ Len(spectrogram[1]) = 0
    THEN createFailure("Empty spectrogram provided")
    ELSE
    LET numFreqBins == Len(spectrogram)
        numTimeWindows == Len(spectrogram[1])
        freqBands == FreqBands(numFreqBins)
    IN  IF BandError(freqBands, 1, numFreqBins) # ""
        THEN createFailure(BandError(freqBands, 1, numFreqBins))
        ELSE PeaksResult(AllPeaks(spectrogram, 0, numTimeWindows, freqBands))

\* The messages extractPeaks passes to Logger::info (lines 16 and 103).
PeaksMessages(spectrogram, result) ==
    IF Len(spectrogram) = 0 \/ Len(spectrogram[1]) = 0 THEN <<>>
    ELSE <<"Extracting peaks from spectrogram: " \o ToString(Len(spectrogram))
               \o "x" \o ToString(Len(spectrogram[1]))>>
         \o (IF result.success
             THEN <<"Extracted " \o ToString(Len(result.value[1])) \o " peaks">>
             ELSE <<>>)

(***************************************************************************)
(* The spectrograms given to extractPeaks: rectangular, the rows of        *)
(* LoudRows hold a magnitude of Magnitudes, the other rows are silent.     *)
(* Every row count up to MaxRows comes with at most one window, the two    *)
(* largest row counts with up to MaxCols windows.  The same two row counts *)
(* come with one window of LargeMagnitudes, whose sums single precision    *)
(* cannot hold exactly.                                                    *)
(***************************************************************************)
MaxRows == 11
MaxCols == 2
LoudRows == {1, 2, 3}
Magnitudes == {0, 1, 2}
LargeMagnitudes == {11184813, 11184814}

Shapes ==
    {shape \in (0..MaxRows) \X (0..MaxCols) :
        shape[2] <= 1 \/ shape[1] = MaxRows - 1}

Loudness(shape) ==
    [LoudRows \X (1..shape[2]) -> Magnitudes]
    \cup (IF shape[2] = 1 /\ shape[1] >= MaxRows - 1
          THEN [LoudRows \X (1..1) -> LargeMagnitudes] ELSE {})

Spectrogram(numRows, numCols, loud) ==
    [f \in 1..numRows |->
        [t \in 1..numCols |-> IF f \in LoudRows THEN loud[f, t] ELSE 0]]

ExtractPeaks ==
    /\ op = "none"
    /\ \E shape \in Shapes :
        \E loud \in Loudness(shape) :
            LET spectrogram == Spectrogram(shape[1], shape[2], loud)
                result == extractPeaks(spectrogram)
            IN  /\ op' = "extractPeaks"
                /\ args' = [spectrogram |-> spectrogram]
                /\ env' = <<>>
                /\ ret' = [kind |-> "returned", result |-> result]
                /\ logged' = info(PeaksMessages(spectrogram, result), 1)
    /\ UNCHANGED <<currentLogLevel, logFunction, earlier, threads, setters>>

(***************************************************************************)
(* createFingerprint (fingerprint.cpp, the Result version).                *)
(* A uint32_t hash is kept as two 16-bit limbs <<high, low>>.  The         *)
(* unordered_map is a function from its keys to the vectors of entries.    *)
(* Positions in peaks are counted from 1.                                  *)
(***************************************************************************)
\* const float targetTimeRange = 3.0f, minTargetTimeDelta = 0.5f (in quarters)
targetTimeRange == 3 * TimeDen
minTargetTimeDelta == TimeDen \div 2
maxFreqDelta == 30
maxTargetsPerAnchor == 5

Abs(x) == IF x < 0 THEN 0 - x ELSE x

\* Hash with the anchor and the target fields exchanged
HashSwapped(anchor, target, timeDelta) ==
    LET a == target.frequency % 1024
        t == anchor.frequency % 1024
        d == ((timeDelta * 10) \div TimeDen) % 4096
    IN  <<a * 64 + t \div 16, (t % 16) * 4096 + d>>

\* (static_cast<uint32_t>(anchor.frequency) & 0x3FF) << 22 |
\* (static_cast<uint32_t>(target.frequency) & 0x3FF) << 12 |
\* (static_cast<uint32_t>(timeDelta * 10.0f) & 0xFFF)
Hash(anchor, target, timeDelta) ==
    LET a == anchor.frequency % 1024
        t == target.frequency % 1024
        d == ((timeDelta * 10) \div TimeDen) % 4096
    IN  <<a * 64 + t \div 16, (t % 16) * 4096 + d>>

\* FingerprintHash fingerprintHash = {hash, anchor.time, songId};
FingerprintHash(hash, time, songId) ==
    [hash |-> hash, time |-> time, songId |-> songId]

\* PushBack replacing the entries of the key by the new one
PushBackOverwrite(fingerprint, hash, entry) ==
    IF hash \in DOMAIN fingerprint
    THEN [fingerprint EXCEPT ![hash] = <<entry>>]
    ELSE fingerprint @@ (hash :> <<entry>>)

\* fingerprint[hash].push_back(fingerprintHash);
PushBack(fingerprint, hash, entry) ==
    IF hash \in DOMAIN fingerprint
    THEN [fingerprint EXCEPT ![hash] = Append(@, entry)]
    ELSE fingerprint @@ (hash :> <<entry>>)

\* TooClose skipping only the targets before the anchor
TooCloseNegative(timeDelta) == timeDelta < 0

\* if (timeDelta < minTargetTimeDelta) continue;
TooClose(timeDelta) == timeDelta < minTargetTimeDelta

\* TooFar with >= for >
TooFarInclusive(timeDelta) == timeDelta >= targetTimeRange

\* if (timeDelta > targetTimeRange) break;
TooFar(timeDelta) == timeDelta > targetTimeRange

\* if (freqDelta > maxFreqDelta) continue;
FreqTooFar(anchor, target) ==
    Abs(target.frequency - anchor.frequency) > maxFreqDelta

\* ScanContinues with <= for < in the cap
ScanContinuesOneMore(peaks, j, numTargets) ==
    j <= Len(peaks) /\ numTargets <= maxTargetsPerAnchor

\* the loop condition j < peaks.size() && numTargets < maxTargetsPerAnchor
ScanContinues(peaks, j, numTargets) ==
    j <= Len(peaks) /\ numTargets < maxTargetsPerAnchor

\* The inner loop for anchor i from candidate j on.  s holds the map and what
\* the scan did: visited, the <<i, j>> whose loop body ran, pairs, the
\* <<i, j>> that were recorded, in order, and hashes, the hash computed for
\* each of them.
\* ScanTargets ending the scan at a candidate too far in frequency (break
\* for continue)
RECURSIVE ScanTargetsFreqBreak(_, _, _, _, _, _)
ScanTargetsFreqBreak(peaks, songId, i, j, numTargets, s) ==
    IF ~ScanContinues(peaks, j, numTargets) THEN s
    ELSE
    LET anchor == peaks[i]
        target == peaks[j]
        timeDelta == target.time - anchor.time
        seen == [s EXCEPT !.visited = @ \cup {<<i, j>>}]
    IN  IF TooClose(timeDelta)
        THEN ScanTargetsFreqBreak(peaks, songId, i, j + 1, numTargets, seen)
        ELSE IF TooFar(timeDelta) \/ FreqTooFar(anchor, target)
        THEN seen
        ELSE
        LET hash == Hash(anchor, target, timeDelta)
            entry == FingerprintHash(hash, anchor.time, songId)
        IN  ScanTargetsFreqBreak(peaks, songId, i, j + 1, numTargets + 1,
                [seen EXCEPT !.fingerprint = PushBack(@, hash, entry),
                             !.pairs = Append(@, <<i, j>>),
                             !.hashes = Append(@, hash)])

RECURSIVE ScanTargets(_, _, _, _, _, _)
ScanTargets(peaks, songId, i, j, numTargets, s) ==
    IF ~ScanContinues(peaks, j, numTargets) THEN s
    ELSE
    LET anchor == peaks[i]
        target == peaks[j]
        timeDelta == target.time - anchor.time
        seen == [s EXCEPT !.visited = @ \cup {<<i, j>>}]
    IN  IF TooClose(timeDelta)
        THEN ScanTargets(peaks, songId, i, j + 1, numTargets, seen)
        ELSE IF TooFar(timeDelta)
        THEN seen
        ELSE IF FreqTooFar(anchor, target)
        THEN ScanTargets(peaks, songId, i, j + 1, numTargets, seen)
        ELSE
        LET hash == Hash(anchor, target, timeDelta)
            entry == FingerprintHash(hash, anchor.time, songId)
        IN  ScanTargets(peaks, songId, i, j + 1, numTargets + 1,
                [seen EXCEPT !.fingerprint = PushBack(@, hash, entry),
                             !.pairs = Append(@, <<i, j>>),
                             !.hashes = Append(@, hash)])

\* for (size_t i = 0; i < peaks.size(); ++i) { ... }
RECURSIVE ScanAnchors(_, _, _, _)
ScanAnchors(peaks, songId, i, s) ==
    IF i > Len(peaks) THEN s
    ELSE ScanAnchors(peaks, songId, i + 1,
                     ScanTargets(peaks, songId, i, i + 1, 0, s))

EmptyScan == [fingerprint |-> <<>>, pairs |-> <<>>, hashes |-> <<>>, visited |-> {}]

\* FingerprintResult without the empty check
FingerprintResultUnchecked(fingerprint) == createSuccess(fingerprint)

\* if (fingerprint.empty()) failure else success
FingerprintResult(fingerprint) ==
    IF DOMAIN fingerprint = {}
    THEN createFailure("Failed to create any fingerprint hashes")
    ELSE createSuccess(fingerprint)

\* createFingerprint refusing peaks that are not ordered by time
createFingerprintOrdered(peaks, songId) ==
    IF Len(peaks) = 0
    THEN [kind |-> "returned", result |-> createFailure("Empty peaks vector provided"),
          pairs |-> <<>>, hashes |-> <<>>, visited |-> {}]
    ELSE IF songId < 0
    THEN [kind |-> "returned",
          result |-> createFailure("Invalid song ID: " \o ToString(songId)),
          pairs |-> <<>>, hashes |-> <<>>, visited |-> {}]
    ELSE IF \E k \in 1..(Len(peaks) - 1) : peaks[k + 1].time < peaks[k].time
    THEN [kind |-> "returned",
          result |-> createFailure("Peaks are not ordered by time"),
          pairs |-> <<>>, hashes |-> <<>>, visited |-> {}]
    ELSE LET s == ScanAnchors(peaks, songId, 1, EmptyScan)
         IN  [kind |-> "returned", result |-> FingerprintResult(s.fingerprint),
              pairs |-> s.pairs, hashes |-> s.hashes, visited |-> s.visited]

createFingerprint(peaks, songId) ==
    IF Len(peaks) = 0
    THEN [kind |-> "returned", result |-> createFailure("Empty peaks vector provided"),
          pairs |-> <<>>, hashes |-> <<>>, visited |-> {}]
    ELSE IF songId < 0
    THEN [kind |-> "returned",
          result |-> createFailure("Invalid song ID: " \o ToString(songId)),
          pairs |-> <<>>, hashes |-> <<>>, visited |-> {}]
    ELSE LET s == ScanAnchors(peaks, songId, 1, EmptyScan)
         IN  [kind |-> "returned", result |-> FingerprintResult(s.fingerprint),
              pairs |-> s.pairs, hashes |-> s.hashes, visited |-> s.visited]

\* The messages createFingerprint passes to Logger::info (lines 93 and 151).
FingerprintMessages(peaks, songId, result) ==
    IF Len(peaks) = 0 \/ songId < 0 THEN <<>>
    ELSE <<"Creating fingerprint with " \o ToString(Len(peaks)) \o " peaks">>
         \o (IF result.success
             THEN <<"Created fingerprint with "
                        \o ToString(Cardinality(DOMAIN result.value[1]))
                        \o " unique hashes">>
             ELSE <<>>)

(***************************************************************************)
(* The calls of createFingerprint: every sequence of up to MaxPeaks peaks  *)
(* over PeakTimes x PeakFreqs and every longer sequence, up to             *)
(* MaxDensePeaks, over DenseTimes x DenseFreqs, in any order; every songId *)
(* of SongIds for the sequences of at most two peaks, songId 1 for the     *)
(* longer ones.  Sequences of up to MaxHashPeaks peaks over                *)
(* HashTimes x HashFreqs carry the bins around the field and word limits   *)
(* of the hash.                                                            *)
(***************************************************************************)
MaxPeaks == 3
MaxDensePeaks == 7
MaxHashPeaks == 3

\* times in quarters: 0, 0.5, 3.0, 3.25
PeakTimes == {0, 2, 12, 13}
PeakFreqs == {0, 30, 61}
\* the dense sequences: 0, 3.0, 3.25
DenseTimes == {0, 12, 13}
DenseFreqs == {0}
SongIds == {0 - 1, 0, 1}

\* times in quarters: 0, 0.5, 1.0; bins 0, 16, 1023, 1024
HashTimes == {0, 2, 4}
HashFreqs == {0, 16, 1023, 1024}

HashSeqs(len) ==
    IF len <= MaxHashPeaks
    THEN [1..len -> {Peak(f, t, 1) : t \in HashTimes, f \in HashFreqs}]
    ELSE {}

PeakSeqs(len) ==
    (IF len <= MaxPeaks
     THEN [1..len -> {Peak(f, t, 1) : t \in PeakTimes, f \in PeakFreqs}]
     ELSE [1..len -> {Peak(f, t, 1) : t \in DenseTimes, f \in DenseFreqs}])
    \cup HashSeqs(len)

SongIdsFor(len) == IF len <= 2 THEN SongIds ELSE {1}

CreateFingerprint ==
    /\ op = "none"
    /\ \E len \in 0..MaxDensePeaks :
        \E peaks \in PeakSeqs(len), songId \in SongIdsFor(len) :
            LET out == createFingerprint(peaks, songId)
            IN  /\ op' = "createFingerprint"
                /\ args' = [peaks |-> peaks, songId |-> songId]
                /\ env' = <<>>
                /\ ret' = out
                /\ logged' = info(FingerprintMessages(peaks, songId, out.result), 1)
    /\ UNCHANGED <<currentLogLevel, logFunction, earlier, threads, setters>>

(***************************************************************************)
(* The pipeline as its callers run it (audio_comparison_test.cpp):         *)
(* generateSpectrogram, extractPeaks on its spectrogram, createFingerprint *)
(* on its peaks; a stage runs only when the one before succeeded.          *)
(*                                                                         *)
(* The samples of a signal are kept as what the stages make of them: their *)
(* number and spectrum, the magnitude of the transform coefficient at bin b *)
(* of window k for <<k, b>> in its domain (0 elsewhere).                   *)
(***************************************************************************)
NotRun == <<>>

\* the float values of a spectrogram of coefficients
Numeric(spectrogram, spectrum) ==
    [r \in 1..Len(spectrogram) |->
        [c \in 1..Len(spectrogram[r]) |->
            IF spectrogram[r][c] \in DOMAIN spectrum
            THEN spectrum[spectrogram[r][c]]
            ELSE 0]]

\* PeaksStage with a peaks vector that outlives the call: the peaks of a run
\* follow those the earlier run left in it
PeaksStageKept(x, g) ==
    IF g.kind = "returned" /\ g.result.success
    THEN LET result == extractPeaks(Numeric(g.result.value[1], x.spectrum))
         IN  IF /\ result.success
                /\ earlier # <<>>
                /\ earlier.out.peaks # NotRun
                /\ earlier.out.peaks[1].success
             THEN <<createSuccess(earlier.out.peaks[1].value[1] \o result.value[1])>>
             ELSE <<result>>
    ELSE NotRun

PeaksStage(x, g) ==
    IF g.kind = "returned" /\ g.result.success
    THEN <<extractPeaks(Numeric(g.result.value[1], x.spectrum))>>
    ELSE NotRun

FingerprintStage(x, p) ==
    IF p # NotRun /\ p[1].success
    THEN <<createFingerprint(p[1].value[1], x.songId).result>>
    ELSE NotRun

Pipeline(x, e) ==
    LET g == generateSpectrogram(x.args, e)
        p == PeaksStage(x, g)
    IN  [kind |-> "pipeline",
         spectrogram |-> [kind |-> g.kind, result |-> g.result],
         peaks |-> p,
         fingerprint |-> FingerprintStage(x, p)]

\* what the three stages of a run pass to Logger::info
PipelineMessages(x, e, out) ==
    GenMessages(x.args, e, generateSpectrogram(x.args, e))
    \o (IF out.peaks = NotRun THEN <<>>
        ELSE PeaksMessages(Numeric(out.spectrogram.result.value[1], x.spectrum),
                           out.peaks[1]))
    \o (IF out.fingerprint = NotRun THEN <<>>
        ELSE FingerprintMessages(out.peaks[1].value[1], x.songId,
                                 out.fingerprint[1]))

(***************************************************************************)
(* The runs of the pipeline: signals of up to MaxRunWindows windows of     *)
(* PipeWindow samples without overlap, at a sample rate of PipeWindow (one *)
(* bin per Hz) or one below it (binSize 0, undefined conversions), the     *)
(* band [0, PipeWindow / 2].  The bins of PipeLoudBins hold a magnitude of *)
(* PipeMagnitudes.  The first run is remembered and the runs after it are  *)
(* on the same signal and arguments.                                       *)
(***************************************************************************)
PipeWindow == 20
MaxRunWindows == 2
PipeLoudBins == {0, 1}
PipeMagnitudes == {1, 2}

PipelineArgs(numSamples, sampleRate) ==
    [numSamples |-> numSamples, sampleRate |-> sampleRate,
     windowSize |-> PipeWindow, overlap |-> <<0, 1>>,
     minFreq |-> 0, maxFreq |-> PipeWindow \div 2]

Spectra(numWindows) ==
    [(0..(numWindows - 1)) \X PipeLoudBins -> PipeMagnitudes]

\* the transform of any window may fail; an undefined conversion of
\* maxFreq / binSize gives 0 or a value above PipeWindow / 2
PipelineEnvs(x) ==
    LET ubs == IF BinSize(x.args.sampleRate, x.args.windowSize) = 0
                  /\ ArgumentError(x.args) = ""
               THEN {0, PipeWindow \div 2 + 1}
               ELSE {0}
    IN  UNION {
            {[NoEnv EXCEPT !.ubMaxBin = ubMax]}
            \cup
            {[fftFailAt |-> k, fftReason |-> "Failed to create FFT plan",
              ubMinBin |-> 0, ubMaxBin |-> ubMax] :
                k \in FftFailPoints(x.args, 0, ubMax)}
            : ubMax \in ubs}

RunPipeline ==
    /\ op = "none"
    /\ \E numWindows \in 0..MaxRunWindows, sampleRate \in {PipeWindow - 1, PipeWindow} :
        \E spectrum \in Spectra(numWindows) :
            LET x == [args |-> PipelineArgs(numWindows * PipeWindow, sampleRate),
                      spectrum |-> spectrum, songId |-> 1]
            IN  /\ earlier # <<>> => x = earlier.input
                /\ \E e \in PipelineEnvs(x) :
                       /\ op' = "pipeline"
                       /\ args' = x
                       /\ env' = e
                       /\ ret' = Pipeline(x, e)
                       /\ logged' = info(PipelineMessages(x, e, Pipeline(x, e)), 1)
                       /\ earlier' = IF earlier = <<>>
                                     THEN [input |-> x, env |-> e, out |-> Pipeline(x, e)]
                                     ELSE earlier
    /\ UNCHANGED <<currentLogLevel, logFunction, threads, setters>>

(***************************************************************************)
(* TEST(AudioComparisonTest, SameFileSanityCheck): the pipeline on the     *)
(* first half of a signal (songId 1) and on the whole signal (songId 2),   *)
(* with overlap 0.5, then the share of the first half's keys found among    *)
(* the keys of the whole.  Window k of the first half holds the samples of *)
(* window k of the whole signal, hence the same spectrum.  The signals     *)
(* have up to MaxHalfWindows times PipeWindow samples.                      *)
(***************************************************************************)
MaxHalfWindows == 3

\* the windows a signal of numSamples samples has room for
WindowsOf(a) ==
    IF a.numSamples < a.windowSize THEN 0
    ELSE NumWindows(a.numSamples, a.windowSize, StepSize(a.windowSize, a.overlap))[2]

\* FirstHalf with the samples of the half in reverse order
FirstHalfReversed(x) ==
    LET half == [x.args EXCEPT !.numSamples = x.args.numSamples \div 2]
    IN  [args |-> half,
         spectrum |-> [cell \in DOMAIN x.spectrum |->
                          IF cell[1] < WindowsOf(half)
                          THEN x.spectrum[<<WindowsOf(half) - 1 - cell[1], cell[2]>>]
                          ELSE x.spectrum[cell]],
         songId |-> 1]

\* std::vector<float> firstHalf(samples.begin(), samples.begin() + samples.size()/2);
FirstHalf(x) ==
    [args |-> [x.args EXCEPT !.numSamples = x.args.numSamples \div 2],
     spectrum |-> x.spectrum,
     songId |-> 1]

\* the ASSERT_TRUE(...success) of the test all pass for a run
RunPassed(out) ==
    /\ out.spectrogram.kind = "returned" /\ out.spectrogram.result.success
    /\ out.peaks # NotRun /\ out.peaks[1].success
    /\ out.fingerprint # NotRun /\ out.fingerprint[1].success

\* for (hashEntry : firstHalfFingerprint) if (fullFileFingerprint.find(...) != end) matchCount++;
MatchCount(firstHalfFingerprint, fullFileFingerprint) ==
    Cardinality(DOMAIN firstHalfFingerprint \cap DOMAIN fullFileFingerprint)

\* EXPECT_GT(100.0f * matchCount / firstHalfFingerprint.size(), 50.0f)
ExpectMatch(matchCount, size) == 100 * matchCount > 50 * size

SameFileSanityCheckResult(x) ==
    LET firstHalf == Pipeline(FirstHalf(x), NoEnv)
        fullFile == Pipeline(x, NoEnv)
    IN  IF RunPassed(firstHalf) /\ RunPassed(fullFile)
        THEN LET matchCount == MatchCount(firstHalf.fingerprint[1].value[1],
                                          fullFile.fingerprint[1].value[1])
             IN  [kind |-> "test", firstHalf |-> firstHalf, fullFile |-> fullFile,
                  asserted |-> TRUE, matchCount |-> matchCount,
                  expected |-> ExpectMatch(matchCount,
                      Cardinality(DOMAIN firstHalf.fingerprint[1].value[1]))]
        ELSE [kind |-> "test", firstHalf |-> firstHalf, fullFile |-> fullFile,
              asserted |-> FALSE, matchCount |-> 0, expected |-> FALSE]

SameFileSanityCheck ==
    /\ op = "none"
    /\ \E k \in 0..MaxHalfWindows :
        LET a == [PipelineArgs(k * PipeWindow, PipeWindow) EXCEPT !.overlap = <<1, 2>>]
        IN  \E spectrum \in Spectra(WindowsOf(a)) :
               /\ op' = "SameFileSanityCheck"
               /\ args' = [args |-> a, spectrum |-> spectrum, songId |-> 2]
               /\ env' = NoEnv
               /\ ret' = SameFileSanityCheckResult(
                             [args |-> a, spectrum |-> spectrum, songId |-> 2])
    /\ UNCHANGED <<currentLogLevel, logFunction, logged, earlier, threads, setters>>

(***************************************************************************)
(* The last two stages as the tests chain them (audio_comparison_test.cpp  *)
(* lines 254-267): extractPeaks on a spectrogram, then, when it succeeded, *)
(* createFingerprint on the peaks it returned, with songId 2.  The         *)
(* spectrograms have MaxRows - 1 rows and up to MaxChainCols windows, each *)
(* window with the magnitudes of one of ChainColumns in the rows of        *)
(* LoudRows: a silent window, windows that emit one peak and a window that *)
(* emits two.                                                              *)
(***************************************************************************)
MaxChainCols == 5
ChainColumns == {<<0, 0, 0>>, <<2, 1, 0>>, <<1, 2, 1>>, <<2, 2, 1>>}

ChainSpectrogram(columns) ==
    [f \in 1..(MaxRows - 1) |->
        [t \in 1..Len(columns) |-> IF f \in LoudRows THEN columns[t][f] ELSE 0]]

FingerprintOfPeaks(spectrogram, songId) ==
    LET peaks == extractPeaks(spectrogram)
    IN  [kind |-> "chained",
         peaks |-> peaks,
         fingerprint |-> IF peaks.success
                         THEN <<createFingerprint(peaks.value[1], songId)>>
                         ELSE NotRun]

FingerprintOfPeaksMessages(spectrogram, songId, out) ==
    PeaksMessages(spectrogram, out.peaks)
    \o (IF out.fingerprint = NotRun THEN <<>>
        ELSE FingerprintMessages(out.peaks.value[1], songId, out.fingerprint[1].result))

ExtractPeaksCreateFingerprint ==
    /\ op = "none"
    /\ \E numCols \in 1..MaxChainCols :
        \E columns \in [1..numCols -> ChainColumns] :
            LET out == FingerprintOfPeaks(ChainSpectrogram(columns), 2)
            IN  /\ op' = "extractPeaks+createFingerprint"
                /\ args' = [spectrogram |-> ChainSpectrogram(columns), songId |-> 2]
                /\ env' = <<>>
                /\ ret' = out
                /\ logged' = info(FingerprintOfPeaksMessages(
                                      ChainSpectrogram(columns), 2, out), 1)
    /\ UNCHANGED <<currentLogLevel, logFunction, earlier, threads, setters>>

\* void Logger::setLogLevel(LogLevel level) { currentLogLevel = level; }
SetLogLevel ==
    /\ op = "none"
    /\ \E level \in LogLevels :
        /\ currentLogLevel' = level
        /\ setters' = [setters EXCEPT !.level = <<level>>]
    /\ UNCHANGED <<op, args, env, ret, logFunction, logged, earlier, threads>>

LogFunctions == {NullFunction, "logFunc", "otherFunc"}

\* void Logger::setLogFunction(logFunc) { logFunction = std::move(logFunc); }
SetLogFunction ==
    /\ op = "none"
    /\ \E logFunc \in LogFunctions :
        /\ logFunction' = logFunc
        /\ setters' = [setters EXCEPT !.logFunc = <<logFunc>>]
    /\ UNCHANGED <<op, args, env, ret, currentLogLevel, logged, earlier, threads>>

\* Logger::debug, info, warning, error, fatal: log(level, message)
LogMessage ==
    /\ op = "none"
    /\ \E level \in LogLevels :
        /\ op' = "log"
        /\ args' = [level |-> level, message |-> "message"]
        /\ env' = <<>>
        /\ ret' = <<>>
        /\ logged' = log(level, "message")
    /\ UNCHANGED <<currentLogLevel, logFunction, earlier, threads, setters>>

(***************************************************************************)
(* A caller that runs the library on several threads.  The stages take no  *)
(* lock and use no atomic: the steps of a call that touch something other  *)
(* threads can reach are the two reads of Logger::log (currentLogLevel at  *)
(* line 41, logFunction at line 46), the delivery of the message, and, in  *)
(* generateSpectrogram, the creation and destruction of the FFTW plan of   *)
(* each window, which work on the planner of the library.  Two accesses to *)
(* the same variable from two threads, one of them a write, with nothing   *)
(* ordering them, are a data race: the program's behaviour is undefined    *)
(* from there, so a call that was part of one returns either its own       *)
(* result or anything else.                                                *)
(***************************************************************************)
Threads == {1, 2}

MaxThreadWindows == 2

\* The calls a thread makes, each on its own input.
ThreadCalls ==
    [n \in 1..(MaxThreadWindows + 1) |->
        [stage |-> "generateSpectrogram",
         a |-> PipelineArgs((n - 1) * PipeWindow, PipeWindow)]]
    \o <<[stage |-> "extractPeaks",
          spectrogram |-> Spectrogram(MaxRows, 1,
                              [c \in LoudRows \X (1..1) |-> IF c[1] = 1 THEN 2 ELSE 1])],
         [stage |-> "extractPeaks",
          spectrogram |-> Spectrogram(MaxRows, 1,
                              [c \in LoudRows \X (1..1) |-> 0])],
         [stage |-> "createFingerprint",
          peaks |-> <<Peak(0, 0, 1), Peak(0, TimeDen, 1)>>, songId |-> 1],
         [stage |-> "setLogLevel", level |-> INFO],
         [stage |-> "setLogLevel", level |-> ERROR],
         [stage |-> "setLogFunction", logFunc |-> "logFunc"]>>

\* What the call returns when no other thread runs.
Alone(call) ==
    CASE call.stage = "generateSpectrogram" -> generateSpectrogram(call.a, NoEnv).result
      [] call.stage = "extractPeaks" -> extractPeaks(call.spectrogram)
      [] call.stage = "createFingerprint" ->
             createFingerprint(call.peaks, call.songId).result
      [] OTHER -> <<>>

\* The messages the call passes to Logger::info.
Messages(call) ==
    CASE call.stage = "generateSpectrogram" ->
             GenMessages(call.a, NoEnv, generateSpectrogram(call.a, NoEnv))
      [] call.stage = "extractPeaks" ->
             PeaksMessages(call.spectrogram, extractPeaks(call.spectrogram))
      [] call.stage = "createFingerprint" ->
             FingerprintMessages(call.peaks, call.songId,
                                 createFingerprint(call.peaks, call.songId).result)
      [] OTHER -> <<>>

RECURSIVE Plans(_)
\* fft creates and destroys one plan per window (spectrogram.cpp lines 67 and 84).
Plans(numWindows) ==
    IF numWindows = 0 THEN <<>>
    ELSE <<[do |-> "fftwf_plan_dft_1d", with |-> ""],
           [do |-> "fftwf_destroy_plan", with |-> ""]>> \o Plans(numWindows - 1)

\* The steps of the call that touch something shared, in program order.
Program(call) ==
    LET messages == Messages(call)
        first == IF Len(messages) >= 1
                 THEN <<[do |-> "info", with |-> messages[1]]>> ELSE <<>>
        last == IF Len(messages) >= 2
                THEN <<[do |-> "info", with |-> messages[2]]>> ELSE <<>>
    IN  CASE call.stage = "generateSpectrogram" ->
                 first \o Plans(generateSpectrogram(call.a, NoEnv).transformed) \o last
          [] call.stage = "setLogLevel" ->
                 <<[do |-> "setLogLevel", with |-> call.level]>>
          [] call.stage = "setLogFunction" ->
                 <<[do |-> "setLogFunction", with |-> call.logFunc]>>
          [] OTHER -> first \o last

IdleThread ==
    [phase |-> "idle", call |-> 0, todo |-> <<>>, inLog |-> FALSE,
     raced |-> FALSE, result |-> <<>>]

\* The variable the next step of thread t reads or writes.
Access(t) ==
    IF threads[t].phase # "running" \/ threads[t].todo = <<>>
    THEN [variable |-> "", write |-> FALSE]
    ELSE LET do == Head(threads[t].todo).do
         IN  CASE do = "info" ->
                      [variable |-> IF threads[t].inLog THEN "logFunction"
                                    ELSE "currentLogLevel",
                       write |-> FALSE]
               [] do = "setLogLevel" -> [variable |-> "currentLogLevel", write |-> TRUE]
               [] do = "setLogFunction" -> [variable |-> "logFunction", write |-> TRUE]
               [] OTHER -> [variable |-> "planner", write |-> TRUE]

\* Unordered accesses of two threads to one variable, one of them a write.
Conflict(t, u) ==
    /\ t # u
    /\ Access(t).variable # ""
    /\ Access(t).variable = Access(u).variable
    /\ Access(t).write \/ Access(u).write

\* A thread enters a call no other thread is making.
Call ==
    /\ op = "none"
    /\ \E t \in Threads, call \in DOMAIN ThreadCalls :
        /\ threads[t].phase = "idle"
        /\ \A u \in Threads : threads[u].call # call
        /\ threads' = [threads EXCEPT ![t] =
               [phase |-> "running", call |-> call, todo |-> Program(ThreadCalls[call]),
                inLog |-> FALSE, raced |-> FALSE, result |-> <<>>]]
    /\ UNCHANGED <<op, args, env, ret, currentLogLevel, logFunction, logged, earlier,
                   setters>>

\* The thread's next step: the level test of Logger::log, its delivery, a
\* planner call, or the assignment of a setter.
Step ==
    /\ op = "none"
    /\ \E t \in Threads :
        /\ threads[t].phase = "running"
        /\ threads[t].todo # <<>>
        /\ LET do == Head(threads[t].todo)
               stepped == [threads EXCEPT
                   ![t].todo = IF do.do = "info" /\ ~threads[t].inLog
                                  /\ ~(INFO < currentLogLevel)
                               THEN @ ELSE Tail(@),
                   ![t].inLog = do.do = "info" /\ ~@ /\ ~(INFO < currentLogLevel)]
           IN  /\ threads' = [u \in Threads |->
                      IF Conflict(t, u) \/ Conflict(u, t)
                         \/ (u = t /\ \E v \in Threads : Conflict(t, v))
                      THEN [stepped[u] EXCEPT !.raced = TRUE] ELSE stepped[u]]
               /\ currentLogLevel' = IF do.do = "setLogLevel" THEN do.with
                                     ELSE currentLogLevel
               /\ logFunction' = IF do.do = "setLogFunction" THEN do.with
                                 ELSE logFunction
               /\ setters' = IF do.do = "setLogLevel"
                             THEN [setters EXCEPT !.level = <<do.with>>]
                             ELSE IF do.do = "setLogFunction"
                             THEN [setters EXCEPT !.logFunc = <<do.with>>]
                             ELSE setters
               /\ logged' = IF do.do = "info" /\ threads[t].inLog
                            THEN logged \o deliver(INFO, do.with) ELSE logged
    /\ UNCHANGED <<op, args, env, ret, earlier>>

\* The call returns; after a data race, anything can have happened to it.
Return ==
    /\ op = "none"
    /\ \E t \in Threads :
        /\ threads[t].phase = "running"
        /\ threads[t].todo = <<>>
        /\ \E defined \in (IF threads[t].raced THEN BOOLEAN ELSE {TRUE}) :
              threads' = [threads EXCEPT
                  ![t].phase = "returned",
                  ![t].result = [defined |-> defined,
                                 value |-> IF defined
                                           THEN Alone(ThreadCalls[threads[t].call])
                                           ELSE <<>>]]
    /\ UNCHANGED <<op, args, env, ret, currentLogLevel, logFunction, logged, earlier,
                   setters>>

\* The caller joins its threads.
Join ==
    /\ op = "none"
    /\ \A t \in Threads : threads[t].phase \in {"idle", "returned"}
    /\ \E t \in Threads : threads[t].phase = "returned"
    /\ threads' = [t \in Threads |-> IdleThread]
    /\ logged' = <<>>
    /\ UNCHANGED <<op, args, env, ret, currentLogLevel, logFunction, earlier, setters>>

(***************************************************************************)
(* The bands extractPeaks builds for a spectrogram of numFreqBins rows,    *)
(* for every row count up to MaxBandRows.                                  *)
(***************************************************************************)
MaxBandRows == 300

ComputeFreqBands ==
    /\ op = "none"
    /\ \E numFreqBins \in 0..MaxBandRows :
        /\ op' = "freqBands"
        /\ args' = [numFreqBins |-> numFreqBins]
        /\ env' = <<>>
        /\ ret' = FreqBands(numFreqBins)
    /\ UNCHANGED <<currentLogLevel, logFunction, logged, earlier, threads, setters>>

\* LogLevel Logger::currentLogLevel = LogLevel::ERROR;
\* std::function<...> Logger::logFunction = nullptr;
Init ==
    /\ op = "none"
    /\ args = <<>>
    /\ env = <<>>
    /\ ret = <<>>
    /\ currentLogLevel = ERROR
    /\ logFunction = NullFunction
    /\ logged = <<>>
    /\ earlier = <<>>
    /\ threads = [t \in Threads |-> IdleThread]
    /\ setters = [level |-> <<>>, logFunc |-> <<>>]

\* The caller drops what the call returned; the stages keep nothing.
Done ==
    /\ op # "none"
    /\ op' = "none"
    /\ args' = <<>>
    /\ env' = <<>>
    /\ ret' = <<>>
    /\ logged' = <<>>
    /\ UNCHANGED <<currentLogLevel, logFunction, earlier, threads, setters>>

NextGen == GenerateSpectrogram \/ Done

SpecGen == Init /\ [][NextGen]_vars

NextPeaks == ExtractPeaks \/ Done

SpecPeaks == Init /\ [][NextPeaks]_vars

NextFingerprint == CreateFingerprint \/ Done

SpecFingerprint == Init /\ [][NextFingerprint]_vars

NextPipeline == RunPipeline \/ SetLogLevel \/ SetLogFunction \/ Done

SpecPipeline == Init /\ [][NextPipeline]_vars

NextHalf == SameFileSanityCheck \/ Done

SpecHalf == Init /\ [][NextHalf]_vars

NextChain == ExtractPeaksCreateFingerprint \/ Done

SpecChain == Init /\ [][NextChain]_vars

NextLogger == SetLogLevel \/ SetLogFunction \/ LogMessage \/ Done

SpecLogger == Init /\ [][NextLogger]_vars

NextBands == ComputeFreqBands \/ Done

SpecBands == Init /\ [][NextBands]_vars

NextThreads == Call \/ Step \/ Return \/ Join

SpecThreads == Init /\ [][NextThreads]_vars

Next == GenerateSpectrogram \/ ExtractPeaks \/ CreateFingerprint \/ Done

Spec == Init /\ [][Next]_vars

(***************************************************************************)
(* The claims.                                                             *)
(***************************************************************************)
GenCall == op = "generateSpectrogram"
PeaksCall == op = "extractPeaks"
FingerprintCall == op = "createFingerprint"

Failed == ret.kind = "returned" /\ ~ret.result.success
Succeeded == ret.kind = "returned" /\ ret.result.success

\* the arguments pass every check of C2
ArgsPass ==
    /\ args.numSamples > 0 /\ args.sampleRate > 0 /\ args.windowSize > 0
    /\ 0 <= args.overlap[1] /\ args.overlap[1] < args.overlap[2]
    /\ args.minFreq >= 0 /\ args.maxFreq > args.minFreq

\* binSize >= 1: neither float-to-unsigned conversion is undefined
Defined == args.sampleRate >= args.windowSize

\* C1: whenever windowSize is larger than the number of samples (the other
\* arguments valid), generateSpectrogram returns a failure Result and never
\* gets as far as allocating the spectrogram.  Stated for the calls whose
\* conversions are all defined.
C1_ShortSignalFails ==
    (GenCall /\ ArgsPass /\ Defined /\ args.windowSize > args.numSamples)
        => (Failed /\ ~ret.allocated)

\* C2: each invalid argument is refused with its own reason, the first
\* violated condition in the order samples, sampleRate, windowSize, overlap,
\* minFreq, maxFreq decides the reason, and no window is allocated or
\* transformed before the refusal.
C2_Reasons ==
    <<"Empty audio samples provided",
      "Sample rate cannot be zero",
      "Window size cannot be zero",
      "Overlap must be between 0.0 and 1.0 (exclusive)",
      "Minimum frequency cannot be negative",
      "Maximum frequency must be greater than minimum frequency">>

C2_Violated ==
    <<args.numSamples = 0,
      args.sampleRate = 0,
      args.windowSize = 0,
      args.overlap[1] < 0 \/ args.overlap[1] >= args.overlap[2],
      args.minFreq < 0,
      args.maxFreq <= args.minFreq>>

C2_ArgumentChecks ==
    /\ Cardinality({C2_Reasons[c] : c \in 1..6}) = 6
    /\ GenCall =>
        \A c \in 1..6 :
            (C2_Violated[c] /\ \A b \in 1..(c - 1) : ~C2_Violated[b])
                => /\ Failed
                   /\ ret.result.errorMessage = C2_Reasons[c]
                   /\ ~ret.allocated
                   /\ ret.transformed = 0

\* several conditions violated at once, overlap exactly 1.0 among them
C2_Witness ==
    /\ GenCall /\ Failed
    /\ args.numSamples > 0 /\ args.sampleRate > 0 /\ args.windowSize > 0
    /\ args.overlap = <<1, 1>> /\ args.minFreq < 0
    /\ ret.result.errorMessage = C2_Reasons[4]

\* C4: for valid arguments with windowSize <= N a successful result is
\* rectangular, with maxBin - minBin + 1 rows and
\* floor((N - windowSize) / stepSize) + 1 columns,
\* stepSize = max(1, floor(windowSize * (1 - overlap))).
C4_StepSize ==
    Max(1, (args.windowSize * (args.overlap[2] - args.overlap[1])) \div args.overlap[2])

C4_Columns == (args.numSamples - args.windowSize) \div C4_StepSize + 1

C4_MinBin ==
    MinBin(args.minFreq, BinSize(args.sampleRate, args.windowSize), env.ubMinBin)

C4_MaxBin ==
    MaxBin(args.maxFreq, BinSize(args.sampleRate, args.windowSize),
           args.windowSize, env.ubMaxBin)

C5_RowsInBand ==
    (GenCall /\ Succeeded /\ Defined)
        => \A r \in 0..(Len(ret.result.value[1]) - 1) :
               /\ args.minFreq * args.windowSize <= (C4_MinBin + r) * args.sampleRate
               /\ (C4_MinBin + r) * args.sampleRate <= args.maxFreq * args.windowSize

\* C6: once the arguments pass and a window fits, the call fails on the band
\* exactly when the clamped range is empty (maxBin < minBin); a range of one
\* bin (maxBin = minBin) succeeds.  Stated for the calls whose conversions are
\* all defined and whose transforms all succeed.
C6_BandFailure ==
    /\ Failed
    /\ ret.result.errorMessage =
           "Invalid frequency range for given window size and sample rate"

C6_FailsIffEmptyRange ==
    (GenCall /\ ArgsPass /\ Defined /\ args.windowSize <= args.numSamples
        /\ env.fftFailAt < 0)
        => /\ C6_BandFailure <=> C4_MaxBin < C4_MinBin
           /\ C4_MaxBin >= C4_MinBin => Succeeded

\* C7: when the transform of a window fails, the call returns a failure whose
\* message embeds the transform's reason and which carries no spectrogram,
\* whatever columns were computed before; it stops at that window.
C7_FftFailureAborts ==
    (GenCall /\ env.fftFailAt >= 0)
        => /\ Failed
           /\ ret.result.value = <<>>
           /\ ret.result.errorMessage \in
                  {"FFT error: Memory allocation failed for FFT",
                   "FFT error: Failed to create FFT plan"}
           /\ ret.result.errorMessage = "FFT error: " \o env.fftReason
           /\ ret.transformed = env.fftFailAt

\* the transform of the third window fails after two columns were computed
C7_Witness ==
    /\ GenCall /\ Defined /\ env.fftFailAt = 2 /\ ret.transformed = 2
    /\ env.fftReason = "Failed to create FFT plan"
    /\ Failed

\* C3: no stage returns an empty success, and every Result is a success
\* carrying a value or a failure carrying a non-empty reason and no value.
C3_NoEmptySuccess ==
    /\ (GenCall /\ Succeeded)
           => /\ Len(ret.result.value[1]) >= 1
              /\ \A r \in 1..Len(ret.result.value[1]) :
                     Len(ret.result.value[1][r]) >= 1
    /\ (PeaksCall /\ Succeeded) => Len(ret.result.value[1]) >= 1
    /\ (FingerprintCall /\ Succeeded)
           => /\ DOMAIN ret.result.value[1] # {}
              /\ \A k \in DOMAIN ret.result.value[1] :
                     Len(ret.result.value[1][k]) >= 1
    /\ (op # "none" /\ ret.kind = "returned")
           => \/ ret.result.success /\ Len(ret.result.value) = 1
              \/ /\ ~ret.result.success
                 /\ ret.result.value = <<>>
                 /\ ret.result.errorMessage # ""

\* a well-formed spectrogram without any peak is reported as a failure
C3_Witness ==
    /\ PeaksCall /\ Failed
    /\ Len(args.spectrogram) >= 10 /\ Len(args.spectrogram[1]) >= 1
    /\ ret.result.errorMessage = "No significant peaks found in spectrogram"

\* C8: the peaks of a successful extractPeaks are ordered by (time, band):
\* times never decrease, and among peaks of the same time the frequency bin
\* and the band both increase strictly.
C8_BandOf(frequency) ==
    CHOOSE b \in 1..6 :
        /\ FreqBands(Len(args.spectrogram))[b][1] <= frequency
        /\ frequency < FreqBands(Len(args.spectrogram))[b][2]

C8_TimeBandOrder ==
    (PeaksCall /\ Succeeded)
        => LET peaks == ret.result.value[1]
           IN  \A k \in 1..(Len(peaks) - 1) :
                   \/ peaks[k].time < peaks[k + 1].time
                   \/ /\ peaks[k].time = peaks[k + 1].time
                      /\ peaks[k].frequency < peaks[k + 1].frequency
                      /\ C8_BandOf(peaks[k].frequency)
                             < C8_BandOf(peaks[k + 1].frequency)

\* two peaks in each of two windows
C8_Witness ==
    /\ PeaksCall /\ Succeeded
    /\ Len(ret.result.value[1]) = 4
    /\ ret.result.value[1][1].time = ret.result.value[1][2].time
    /\ ret.result.value[1][2].time < ret.result.value[1][3].time
    /\ ret.result.value[1][3].time = ret.result.value[1][4].time

\* what the scan of createFingerprint did
C9_Pairs == {ret.pairs[k] : k \in 1..Len(ret.pairs)}

C9_Delta(p) == args.peaks[p[2]].time - args.peaks[p[1]].time

C9_FreqDelta(p) ==
    Abs(args.peaks[p[2]].frequency - args.peaks[p[1]].frequency)

\* the scan of anchor p[1] ran no loop body after candidate p[2]
C9_ScanEndsAt(p) == \A q \in ret.visited : q[1] = p[1] => q[2] <= p[2]

\* C9 as claimed: a pair is recorded only if the target is in [0.5, 3.0)
\* ahead of the anchor; a target 3.0 or more ahead is never paired and ends
\* the scan of the anchor.
C9_HalfOpenWindow ==
    FingerprintCall
        => /\ \A p \in C9_Pairs :
                  C9_Delta(p) >= TimeDen \div 2 /\ C9_Delta(p) < 3 * TimeDen
           /\ \A p \in ret.visited :
                  C9_Delta(p) >= 3 * TimeDen => p \notin C9_Pairs /\ C9_ScanEndsAt(p)

\* C9 amended: the window is closed, [0.5, 3.0].  A pair is recorded only if
\* the target is at least 0.5 and at most 3.0 ahead; a candidate less than
\* 0.5 ahead is skipped; a candidate more than 3.0 ahead is never paired and
\* ends the scan; a candidate in the window, 3.0 exactly included, within 30
\* bins is paired.
C9_ClosedWindow ==
    FingerprintCall
        => /\ \A p \in C9_Pairs :
                  C9_Delta(p) >= TimeDen \div 2 /\ C9_Delta(p) <= 3 * TimeDen
           /\ \A p \in ret.visited :
                  /\ C9_Delta(p) < TimeDen \div 2 => p \notin C9_Pairs
                  /\ C9_Delta(p) > 3 * TimeDen
                         => p \notin C9_Pairs /\ C9_ScanEndsAt(p)
                  /\ (/\ C9_Delta(p) >= TimeDen \div 2
                      /\ C9_Delta(p) <= 3 * TimeDen
                      /\ C9_FreqDelta(p) <= 30)
                         => p \in C9_Pairs

\* a target exactly 3.0 ahead is paired, one 3.25 ahead ends the scan
C9_Witness ==
    /\ FingerprintCall /\ Succeeded
    /\ \E p \in C9_Pairs : C9_Delta(p) = 3 * TimeDen
    /\ \E p \in ret.visited :
           /\ C9_Delta(p) > 3 * TimeDen
           /\ p[2] < Len(args.peaks)
           /\ C9_ScanEndsAt(p)

\* C10: at most 5 entries are recorded per anchor position, so the entries
\* over all keys are at most 5 times the peaks, and the scan of an anchor
\* stops after its fifth accepted target.
C10_Targets(i) == {p \in C9_Pairs : p[1] = i}

RECURSIVE C10_Entries(_, _)
C10_Entries(fingerprint, keys) ==
    IF keys = {} THEN 0
    ELSE LET k == CHOOSE x \in keys : TRUE
         IN  Len(fingerprint[k]) + C10_Entries(fingerprint, keys \ {k})

C10_TargetCap ==
    FingerprintCall
        => /\ \A i \in 1..Len(args.peaks) :
                  /\ Cardinality(C10_Targets(i)) <= 5
                  /\ Cardinality(C10_Targets(i)) = 5
                         => \E p \in C10_Targets(i) : C9_ScanEndsAt(p)
           /\ Succeeded
                  => C10_Entries(ret.result.value[1], DOMAIN ret.result.value[1])
                         <= 5 * Len(args.peaks)

\* an anchor with five recorded targets and a sixth candidate that passes the
\* time and frequency tests and was never looked at
C10_Witness ==
    /\ FingerprintCall /\ Succeeded
    /\ Cardinality(C10_Targets(1)) = 5
    /\ \E j \in 2..Len(args.peaks) :
           /\ <<1, j>> \notin ret.visited
           /\ C9_Delta(<<1, j>>) >= TimeDen \div 2
           /\ C9_Delta(<<1, j>>) <= 3 * TimeDen
           /\ C9_FreqDelta(<<1, j>>) <= 30

\* the recorded pairs by position in ret.pairs
C11_Anchor(k) == args.peaks[ret.pairs[k][1]]

C11_Target(k) == args.peaks[ret.pairs[k][2]]

\* static_cast<uint32_t>(timeDelta * 10.0f): times are in quarters
C11_DeltaField(k) == ((C11_Target(k).time - C11_Anchor(k).time) * 10) \div TimeDen

\* bits 31-22, 21-12 and 11-0 of a hash <<high, low>>
C11_Bits31to22(hash) == hash[1] \div 64

C11_Bits21to12(hash) == (hash[1] % 64) * 16 + hash[2] \div 4096

C11_Bits11to0(hash) == hash[2] % 4096

\* C11: the hash of every recorded pair is a 32-bit value whose bits 31-22
\* are the anchor bin mod 1024, bits 21-12 the target bin mod 1024 and bits
\* 11-0 the delta field mod 4096; for bins below 1024 and delta fields below
\* 4096 two pairs have the same hash exactly when the three are equal.
C11_HashLayout ==
    FingerprintCall
        => /\ \A k \in 1..Len(ret.pairs) :
                  /\ ret.hashes[k][1] \in 0..(LimbBase - 1)
                  /\ ret.hashes[k][2] \in 0..(LimbBase - 1)
                  /\ C11_Bits31to22(ret.hashes[k]) = C11_Anchor(k).frequency % 1024
                  /\ C11_Bits21to12(ret.hashes[k]) = C11_Target(k).frequency % 1024
                  /\ C11_Bits11to0(ret.hashes[k]) = C11_DeltaField(k) % 4096
           /\ \A k, l \in 1..Len(ret.pairs) :
                  (/\ C11_Anchor(k).frequency < 1024 /\ C11_Target(k).frequency < 1024
                   /\ C11_Anchor(l).frequency < 1024 /\ C11_Target(l).frequency < 1024
                   /\ C11_DeltaField(k) < 4096 /\ C11_DeltaField(l) < 4096)
                      => (ret.hashes[k] = ret.hashes[l]
                             <=> /\ C11_Anchor(k).frequency = C11_Anchor(l).frequency
                                 /\ C11_Target(k).frequency = C11_Target(l).frequency
                                 /\ C11_DeltaField(k) = C11_DeltaField(l))

\* a call that records a pair whose target bin spans both words of the hash,
\* a pair with a bin of 1024 and two pairs with the same hash
C11_Witness ==
    /\ FingerprintCall /\ Succeeded
    /\ \E k, l \in 1..Len(ret.pairs) :
           /\ k # l
           /\ C11_Anchor(k).frequency = 1023 /\ C11_Target(k).frequency = 1024
           /\ C11_Anchor(l).frequency # C11_Target(l).frequency
           /\ C11_Target(l).frequency >= 16
    /\ \E k, l \in 1..Len(ret.pairs) : k # l /\ ret.hashes[k] = ret.hashes[l]

\* the entries the recorded pairs with hash k produce, in the order of the scan
C12_EntriesOf(k) ==
    LET positions == SelectSeq([n \in 1..Len(ret.pairs) |-> n],
                               LAMBDA n : ret.hashes[n] = k)
    IN  [m \in 1..Len(positions) |->
            [hash |-> k, time |-> C11_Anchor(positions[m]).time,
             songId |-> args.songId]]

\* C12: in a successful fingerprint the keys are the hashes of the recorded
\* pairs, and the list under key k holds, for every recorded pair with hash
\* k and in the order of the scan, one entry with hash k, the time of the
\* pair's anchor and the caller's songId; so the entries over all keys are as
\* many as the recorded pairs.
C12_EntriesKept ==
    (FingerprintCall /\ Succeeded)
        => LET fingerprint == ret.result.value[1]
           IN  /\ DOMAIN fingerprint = {ret.hashes[n] : n \in 1..Len(ret.hashes)}
               /\ \A k \in DOMAIN fingerprint :
                      /\ fingerprint[k] = C12_EntriesOf(k)
                      /\ \A n \in 1..Len(fingerprint[k]) :
                             /\ fingerprint[k][n].hash = k
                             /\ fingerprint[k][n].songId = args.songId
               /\ C10_Entries(fingerprint, DOMAIN fingerprint) = Len(ret.pairs)

\* two pairs with anchors at different times produce the same hash and both
\* entries are kept under it
C12_Witness ==
    /\ FingerprintCall /\ Succeeded
    /\ \E k \in DOMAIN ret.result.value[1] :
           /\ Len(ret.result.value[1][k]) >= 2
           /\ ret.result.value[1][k][1].time # ret.result.value[1][k][2].time
    /\ Cardinality(DOMAIN ret.result.value[1]) >= 2

C13_Reasons ==
    <<"Empty peaks vector provided",
      "Invalid song ID: " \o ToString(args.songId),
      "Failed to create any fingerprint hashes">>

\* C13: createFingerprint fails exactly when the peaks are empty, the songId
\* is negative or no pair was recorded, each with a reason of its own, and
\* succeeds in every other case, songId 0 included.
C13_FailureCases ==
    FingerprintCall
        => /\ ret.kind = "returned"
           /\ Failed <=> \/ Len(args.peaks) = 0
                         \/ args.songId < 0
                         \/ Len(ret.pairs) = 0
           /\ ~Failed => Succeeded
           /\ Len(args.peaks) = 0 => ret.result.errorMessage = C13_Reasons[1]
           /\ (Len(args.peaks) > 0 /\ args.songId < 0)
                  => ret.result.errorMessage = C13_Reasons[2]
           /\ (Len(args.peaks) > 0 /\ args.songId >= 0 /\ Len(ret.pairs) = 0)
                  => ret.result.errorMessage = C13_Reasons[3]
           /\ Cardinality({C13_Reasons[c] : c \in 1..3}) = 3

\* songId 0 is accepted
C13_Witness ==
    /\ FingerprintCall /\ Succeeded
    /\ args.songId = 0
    /\ Len(ret.pairs) = 1

PipelineCall == op = "pipeline"

\* a run on the signal, the arguments and the songId of the remembered run
C14_Rerun == PipelineCall /\ earlier # <<>> /\ args = earlier.input

\* binSize >= 1 in the run
C14_Defined == args.args.sampleRate >= args.args.windowSize

HalfCall == op = "SameFileSanityCheck"

C15_HalfKeys == DOMAIN ret.firstHalf.fingerprint[1].value[1]

C15_FullKeys == DOMAIN ret.fullFile.fingerprint[1].value[1]

\* C15: when the pipeline succeeds on a signal and on its first half, more
\* than half of the keys of the first half's fingerprint are keys of the
\* whole signal's fingerprint (and the test's expectation passes).
C15_HalfContained ==
    (HalfCall /\ RunPassed(ret.firstHalf) /\ RunPassed(ret.fullFile))
        => /\ 2 * Cardinality(C15_HalfKeys \cap C15_FullKeys)
                  > Cardinality(C15_HalfKeys)
           /\ ret.asserted /\ ret.expected

\* both runs succeed and the whole signal has keys the first half has not
C15_Witness ==
    /\ HalfCall /\ RunPassed(ret.firstHalf) /\ RunPassed(ret.fullFile)
    /\ C15_FullKeys \ C15_HalfKeys # {}
    /\ Len(ret.firstHalf.peaks[1].value[1]) < Len(ret.fullFile.peaks[1].value[1])

\* thread t is in, or back from, a call of one of the three stages
C16_StageThread(t) ==
    /\ threads[t].phase # "idle"
    /\ ThreadCalls[threads[t].call].stage
           \in {"generateSpectrogram", "extractPeaks", "createFingerprint"}

\* C16: the stages share no mutable state: whatever the interleaving of
\* concurrent calls on different inputs, every call returns what it returns
\* alone, and no call reads or writes a variable that another call or thread
\* can write.
C16_Isolated ==
    \A t \in Threads :
        C16_StageThread(t) =>
            /\ \A u \in Threads : ~Conflict(t, u)
            /\ threads[t].phase = "returned" =>
                   /\ threads[t].result.defined
                   /\ threads[t].result.value = Alone(ThreadCalls[threads[t].call])

(***************************************************************************)
(* C18: in a successful spectrogram the cell [b - minBin][k] holds the     *)
(* magnitude of the coefficient at bin b of window k, for every bin b of   *)
(* [minBin, maxBin] and every window k, the row of bin windowSize/2        *)
(* included; no row is left at its initial zero.  Stated for the calls     *)
(* whose conversions are all defined.                                      *)
(***************************************************************************)
C18_CellsHoldMagnitudes ==
    (GenCall /\ Succeeded /\ Defined)
        => LET spectrogram == ret.result.value[1]
           IN  \A r \in 1..Len(spectrogram) :
                   \A k \in 1..Len(spectrogram[r]) :
                       /\ spectrogram[r][k] # ZeroCell
                       /\ spectrogram[r][k] = Magnitude(k - 1, C4_MinBin + (r - 1))

\* the call went through its columns
C19_Scanned ==
    /\ PeaksCall
    /\ \/ ret.result.success
       \/ ret.result.errorMessage = "No significant peaks found in spectrogram"

C19_Emitted == IF ret.result.success THEN ret.result.value[1] ELSE <<>>

C19_Bands == FreqBands(Len(args.spectrogram))

\* the largest magnitude of band b in column t
C19_Candidate(t, b) ==
    LET band == C19_Bands[b]
        magnitudes == {args.spectrogram[f + 1][t] : f \in band[1]..(band[2] - 1)}
    IN  CHOOSE m \in {0} \cup magnitudes : \A x \in magnitudes : x <= m

\* the candidates of column t by band; a band without candidate has 0
C19_Candidates(t) == [b \in 1..6 |-> C19_Candidate(t, b)]

C19_Count(candidates) == Cardinality({b \in 1..6 : candidates[b] > 0})

RECURSIVE C19_Sum(_, _)
\* the candidates added up exactly
C19_Sum(candidates, b) ==
    IF b = 0 THEN 0 ELSE candidates[b] + C19_Sum(candidates, b - 1)

RECURSIVE C19_FloatSum(_, _)
\* the candidates added up in single precision, band by band
C19_FloatSum(candidates, b) ==
    IF b = 0 THEN 0 ELSE FloatAdd(C19_FloatSum(candidates, b - 1), candidates[b])

\* the candidates strictly above their exact mean
C19_AboveExact(candidates) ==
    {b \in 1..6 : /\ candidates[b] > 0
                  /\ candidates[b] * C19_Count(candidates) > C19_Sum(candidates, 6)}

\* the candidates strictly above their mean in single precision
C19_AboveFloat(candidates) ==
    IF C19_Count(candidates) = 0 THEN {}
    ELSE LET avg == FloatDiv(C19_FloatSum(candidates, 6), C19_Count(candidates))
         IN  {b \in 1..6 : candidates[b] > 0 /\ candidates[b] * avg[2] > avg[1]}

\* the peaks emitted for band b of column t
C19_EmittedFor(t, b) ==
    LET band == C19_Bands[b]
        emitted == C19_Emitted
    IN  {k \in 1..Len(emitted) :
            /\ emitted[k].time = (t - 1) * TimeDen
            /\ band[1] <= emitted[k].frequency
            /\ emitted[k].frequency < band[2]}

\* column t emits the candidates of the bands of above, each once with its
\* bin and its magnitude, and nothing else
C19_ColumnEmits(t, candidates, above) ==
    \A b \in 1..6 :
        LET emitted == C19_EmittedFor(t, b)
        IN  IF b \in above
            THEN /\ Cardinality(emitted) = 1
                 /\ \A k \in emitted :
                        /\ C19_Emitted[k].magnitude = candidates[b]
                        /\ args.spectrogram[C19_Emitted[k].frequency + 1][t]
                               = candidates[b]
            ELSE emitted = {}

\* C19: for each column, the peaks extractPeaks emits are exactly the band
\* candidates (per band, the maximum of the band in that column, provided it
\* is above zero) whose magnitude is strictly greater than the arithmetic mean
\* of the column's candidates; a candidate equal to the mean is not emitted.
C19_AboveExactMean ==
    C19_Scanned
        => \A t \in 1..Len(args.spectrogram[1]) :
               LET candidates == C19_Candidates(t)
               IN  C19_ColumnEmits(t, candidates, C19_AboveExact(candidates))

\* The same with the mean as single precision gives it, the sum rounded
\* after each addition and the quotient rounded.
C19_AboveFloatMean ==
    C19_Scanned
        => \A t \in 1..Len(args.spectrogram[1]) :
               LET candidates == C19_Candidates(t)
               IN  C19_ColumnEmits(t, candidates, C19_AboveFloat(candidates))

\* a column whose candidates all equal their mean and emit nothing, next to
\* a column that emits
C19_Witness ==
    /\ PeaksCall /\ Succeeded
    /\ \E t \in 1..Len(args.spectrogram[1]) :
           LET candidates == C19_Candidates(t)
           IN  /\ C19_Count(candidates) >= 2
               /\ \A b \in 1..6 :
                      /\ candidates[b] > 0 =>
                             candidates[b] * C19_Count(candidates)
                                 = C19_Sum(candidates, 6)
                      /\ C19_EmittedFor(t, b) = {}
    /\ \E t \in 1..Len(args.spectrogram[1]) :
           \E b \in 1..6 : C19_EmittedFor(t, b) # {}

\* a band of the call's spectrogram has its lower bound equal to its upper one
C20_ZeroWidthBand ==
    \E b \in 1..6 : C19_Bands[b][1] = C19_Bands[b][2]

\* C20: when the spectrogram has so few rows that a band has zero width
\* (fewer than 10 rows), extractPeaks skips that band and still takes the
\* candidates of the bands of non-zero width, emitting those above the
\* column's mean; the zero-width band alone does not make the call fail.
C20_ZeroWidthSkipped ==
    (/\ PeaksCall
     /\ Len(args.spectrogram) >= 1 /\ Len(args.spectrogram[1]) >= 1
     /\ C20_ZeroWidthBand)
        => /\ C19_Scanned
           /\ C19_AboveFloatMean

BandsCall == op = "freqBands"

\* the k-th boundary of the bands of n rows, as a fraction of n rounded down
C21_Boundary(k, n) ==
    CASE k = 0 -> 0
      [] k = 1 -> CHOOSE q \in 0..n : 10 * q <= n /\ n < 10 * (q + 1)
      [] k = 2 -> CHOOSE q \in 0..n : 4 * q <= n /\ n < 4 * (q + 1)
      [] k = 3 -> CHOOSE q \in 0..n : 5 * q <= 2 * n /\ 2 * n < 5 * (q + 1)
      [] k = 4 -> CHOOSE q \in 0..n : 5 * q <= 3 * n /\ 3 * n < 5 * (q + 1)
      [] k = 5 -> CHOOSE q \in 0..n : 5 * q <= 4 * n /\ 4 * n < 5 * (q + 1)
      [] k = 6 -> n

\* C21: for every row count n the six bands have the boundaries 0,
\* floor(0.10 n), floor(0.25 n), floor(0.40 n), floor(0.60 n), floor(0.80 n),
\* n; each band starts where the previous one ends, the bands are pairwise
\* disjoint and every row index of [0, n) lies in exactly one of them.
C21_BandsPartition ==
    BandsCall
        => /\ Len(ret) = 6
           /\ \A b \in 1..6 :
                  /\ ret[b][1] = C21_Boundary(b - 1, args.numFreqBins)
                  /\ ret[b][2] = C21_Boundary(b, args.numFreqBins)
           /\ \A b \in 1..5 : ret[b][2] = ret[b + 1][1]
           /\ \A f \in 0..(args.numFreqBins - 1) :
                  Cardinality({b \in 1..6 : ret[b][1] <= f /\ f < ret[b][2]}) = 1

\* a row count where every inner boundary is a fraction rounded down, and
\* rounding to the nearest would move one
C21_Witness ==
    /\ BandsCall
    /\ args.numFreqBins = 238
    /\ ret[2][2] = 59 /\ ret[3][2] = 95 /\ ret[4][2] = 142 /\ ret[5][2] = 190

\* the bands of the call's spectrogram pass the validation of extractPeaks
C22_BandsPass ==
    /\ PeaksCall
    /\ Len(args.spectrogram) >= 1 /\ Len(args.spectrogram[1]) >= 1
    /\ BandError(C19_Bands, 1, Len(args.spectrogram)) = ""

\* column t has no magnitude above zero
C22_Silent(t) ==
    \A f \in 1..Len(args.spectrogram) : ~(args.spectrogram[f][t] > 0)

\* C22: a column in which no band has a magnitude above zero yields no
\* candidate and is skipped, without a mean and without a fault; the other
\* columns are still processed; extractPeaks fails with the no-peaks reason
\* exactly when no column emits a peak, and that reason is not the one of an
\* empty spectrogram.
C22_SilentColumnsSkipped ==
    C22_BandsPass
        => /\ ret.kind = "returned"
           /\ C19_Scanned
           /\ \A t \in 1..Len(args.spectrogram[1]) :
                  LET candidates == C19_Candidates(t)
                  IN  /\ C22_Silent(t) =>
                             /\ C19_Count(candidates) = 0
                             /\ \A b \in 1..6 : C19_EmittedFor(t, b) = {}
                      /\ C19_ColumnEmits(t, candidates, C19_AboveFloat(candidates))
           /\ Failed <=> \A t \in 1..Len(args.spectrogram[1]) :
                             C19_AboveFloat(C19_Candidates(t)) = {}
           /\ Failed => /\ ret.result.errorMessage
                               = "No significant peaks found in spectrogram"
                        /\ ret.result.errorMessage # extractPeaks(<<>>).errorMessage

\* a silent first column followed by a column that emits a peak
C22_Witness ==
    /\ C22_BandsPass /\ Succeeded
    /\ Len(args.spectrogram[1]) >= 2
    /\ C22_Silent(1)
    /\ \E k \in 1..Len(ret.result.value[1]) : ret.result.value[1][k].time = TimeDen

\* round(timeDelta * 10) of the k-th recorded pair: the tenths of the time
\* delta rounded to the nearest whole number, a half going up
C23_RoundedTenths(k) ==
    ((C11_Target(k).time - C11_Anchor(k).time) * 10 * 2 + TimeDen) \div (2 * TimeDen)

\* C23: the low 12 bits of every hash equal round(timeDelta * 10), the time
\* delta in tenths rounded to the nearest integer, for every recorded pair,
\* those whose time delta is not a whole number of tenths included.
C23_RoundedDelta ==
    FingerprintCall
        => \A k \in 1..Len(ret.pairs) :
               C11_Bits11to0(ret.hashes[k]) = C23_RoundedTenths(k) % 4096

\* some peak has a smaller time than an earlier one
C24_Unordered ==
    \E k, l \in 1..Len(args.peaks) : k < l /\ args.peaks[l].time < args.peaks[k].time

\* <<i, j>> passes the time and frequency limits
C24_Qualifies(p) ==
    /\ p[1] < p[2]
    /\ C9_Delta(p) >= TimeDen \div 2 /\ C9_Delta(p) <= 3 * TimeDen
    /\ C9_FreqDelta(p) <= 30

\* <<i, j>> qualifies and was left out although anchor i has room for it
C24_Omitted(p) ==
    /\ C24_Qualifies(p)
    /\ p \notin C9_Pairs
    /\ Cardinality(C10_Targets(p[1])) < 5

\* C24: createFingerprint does not check that its peaks are ordered by time:
\* given peaks out of order it reports no ordering error (it fails only when
\* no pair was recorded, with the reason of that case), and a pair within the
\* limits and the cap that it leaves out is one behind a peak beyond the upper
\* time limit, at which the scan of that anchor stopped.
C24_UnorderedUnderPairs ==
    (FingerprintCall /\ Len(args.peaks) > 0 /\ args.songId >= 0 /\ C24_Unordered)
        => /\ ret.kind = "returned"
           /\ Failed <=> Len(ret.pairs) = 0
           /\ Failed => ret.result.errorMessage = "Failed to create any fingerprint hashes"
           /\ \A i, j \in 1..Len(args.peaks) :
                  C24_Omitted(<<i, j>>)
                      => \E q \in ret.visited :
                             /\ q[1] = i /\ q[2] < j
                             /\ C9_Delta(q) > 3 * TimeDen
                             /\ C9_ScanEndsAt(q)

\* peaks out of order, a success, and a pair within the limits left out
C24_Witness ==
    /\ FingerprintCall /\ Succeeded /\ C24_Unordered
    /\ \E i, j \in 1..Len(args.peaks) : C24_Omitted(<<i, j>>)

LogCall == op = "log"

\* the level and the log function in force: the arguments of the latest
\* setters, ERROR and no function before any
C25_Level == IF setters.level = <<>> THEN ERROR ELSE setters.level[1]

C25_Function == IF setters.logFunc = <<>> THEN NullFunction ELSE setters.logFunc[1]

\* C25: after any sequence of setLogLevel and setLogFunction calls a message
\* logged at level L is delivered exactly when L is at least the most
\* recently set level (ERROR before any setLogLevel); it goes once, to the
\* most recently set log function when that is non-null, and otherwise to
\* standard error for ERROR and FATAL and to standard output below.
C25_Delivery ==
    LogCall
        => /\ Len(logged) > 0 <=> args.level >= C25_Level
           /\ Len(logged) <= 1
           /\ \A k \in 1..Len(logged) :
                  /\ logged[k].level = args.level
                  /\ logged[k].sink =
                         IF C25_Function # NullFunction THEN C25_Function
                         ELSE IF args.level \in {ERROR, FATAL} THEN "std::cerr"
                         ELSE "std::cout"

\* a function was set, then another one, then the level; a message at that
\* very level reaches the second function
C25_Witness ==
    /\ LogCall
    /\ setters.level = <<WARNING>> /\ args.level = WARNING
    /\ setters.logFunc = <<"otherFunc">>
    /\ Len(logged) = 1 /\ logged[1].sink = "otherFunc"

\* the peaks of the call are non-decreasing in time
C26_Ordered ==
    \A k \in 1..(Len(args.peaks) - 1) : args.peaks[k].time <= args.peaks[k + 1].time

\* the later peaks that pass the time and frequency tests for anchor i
C26_Passing(i) == {j \in (i + 1)..Len(args.peaks) : C24_Qualifies(<<i, j>>)}

\* the first five of them, in sequence order: what a scan over all later
\* peaks records
C26_FirstFive(i) ==
    LET passing == C26_Passing(i)
    IN  {j \in passing : Cardinality({l \in passing : l < j}) < 5}

\* C26: for peaks non-decreasing in time, ending an anchor's scan at the
\* first candidate beyond the upper time limit loses nothing: the targets
\* recorded for each anchor are exactly the first (at most 5, in sequence
\* order) later peaks that pass the time-window and frequency-delta tests,
\* recorded in that order, and a candidate rejected for its frequency delta
\* does not end the scan.
C26_EarlyStopLosesNothing ==
    (FingerprintCall /\ Len(args.peaks) > 0 /\ args.songId >= 0 /\ C26_Ordered)
        => /\ \A i \in 1..Len(args.peaks) :
                  {p[2] : p \in C10_Targets(i)} = C26_FirstFive(i)
           /\ \A k \in 1..(Len(ret.pairs) - 1) :
                  \/ ret.pairs[k][1] < ret.pairs[k + 1][1]
                  \/ /\ ret.pairs[k][1] = ret.pairs[k + 1][1]
                     /\ ret.pairs[k][2] < ret.pairs[k + 1][2]
           /\ \A p \in ret.visited :
                  (/\ C9_Delta(p) >= TimeDen \div 2 /\ C9_Delta(p) <= 3 * TimeDen
                   /\ C9_FreqDelta(p) > 30
                   /\ p[2] < Len(args.peaks))
                      => <<p[1], p[2] + 1>> \in ret.visited

\* ordered peaks, a scan that ended at a candidate beyond the limit with
\* later peaks never looked at, and a recorded pair for that anchor
C26_Witness ==
    /\ FingerprintCall /\ Succeeded /\ C26_Ordered
    /\ \E p \in ret.visited :
           /\ C9_Delta(p) > 3 * TimeDen
           /\ p[2] < Len(args.peaks)
           /\ C9_ScanEndsAt(p)
           /\ C10_Targets(p[1]) # {}

\* C27: for every input that passes validation with windowSize <= N, every
\* window index k below the computed window count has
\* k * stepSize + windowSize <= N: no window, the last included, reads past
\* the end of the samples, and the zero-padding branch is never taken.
C27_WindowsInRange ==
    (GenCall /\ ArgsPass /\ args.windowSize <= args.numSamples /\ ret.kind = "returned")
        => \A k \in 0..(ret.transformed - 1) :
               /\ k * C4_StepSize + args.windowSize <= args.numSamples
               /\ ZeroPadded(k, StepSize(args.windowSize, args.overlap),
                             args.windowSize, args.numSamples) = {}
               /\ \A i \in 0..(args.windowSize - 1) :
                      SampleIdx(k, StepSize(args.windowSize, args.overlap), i)
                          \in 0..(args.numSamples - 1)

\* several windows, the last one ending before the last sample
C27_Witness ==
    /\ GenCall /\ ArgsPass /\ Succeeded
    /\ args.windowSize < args.numSamples
    /\ ret.transformed >= 2
    /\ (ret.transformed - 1) * C4_StepSize + args.windowSize < args.numSamples

\* the bands of column t for which a peak was emitted
C28_EmittedBands(t) ==
    LET bands == C19_Bands
        emitted == C19_Emitted
    IN  {b \in 1..6 : \E k \in 1..Len(emitted) :
                          /\ emitted[k].time = (t - 1) * TimeDen
                          /\ bands[b][1] <= emitted[k].frequency
                          /\ emitted[k].frequency < bands[b][2]}

\* the peaks emitted for column t
C28_EmittedCount(t) ==
    LET emitted == C19_Emitted
    IN  Cardinality({k \in 1..Len(emitted) : emitted[k].time = (t - 1) * TimeDen})

\* the candidates of the column all have the same magnitude
C28_AllEqual(candidates) ==
    \A b, c \in 1..6 :
        (candidates[b] > 0 /\ candidates[c] > 0) => candidates[b] = candidates[c]

\* the bands of the largest candidates
C28_Largest(candidates) ==
    {b \in 1..6 : candidates[b] > 0 /\ \A c \in 1..6 : candidates[c] <= candidates[b]}

\* C28: in every column extractPeaks emits strictly fewer peaks than the
\* column has band candidates, hence at most 5 per column: a column with a
\* single candidate, or whose candidates all have the same magnitude, emits
\* no peak, and the largest candidate of a column is emitted whenever the
\* candidates are not all equal.
C28_FewerThanCandidates ==
    C19_Scanned
        => \A t \in 1..Len(args.spectrogram[1]) :
               LET candidates == C19_Candidates(t)
                   count == C19_Count(candidates)
                   emitted == C28_EmittedCount(t)
                   allEqual == C28_AllEqual(candidates)
               IN  /\ count >= 1 => (emitted < count /\ emitted <= 5)
                   /\ (count = 1 \/ allEqual) => emitted = 0
                   /\ ~allEqual => C28_Largest(candidates) \subseteq C28_EmittedBands(t)

\* single precision holds the sum of the column's candidates exactly
C28_SumExact(candidates) == C19_FloatSum(candidates, 6) = C19_Sum(candidates, 6)

\* and their mean as well
C28_MeanExact(candidates) ==
    LET count == C19_Count(candidates)
        sum == C19_Sum(candidates, 6)
    IN  /\ C19_FloatSum(candidates, 6) = sum
        /\ count >= 1
        /\ LET avg == FloatDiv(sum, count)
           IN  avg[1] * count = sum * avg[2]

\* The same with the roundings of single precision taken into account: a
\* column never emits more peaks than it has candidates, nor a candidate
\* while leaving out a larger one, and a single candidate is never emitted;
\* where the sum is exact the column emits fewer peaks than candidates and
\* none when they are all equal; where the mean is exact too the largest
\* candidate is emitted whenever they are not all equal.
C28_FewerWhereExact ==
    C19_Scanned
        => \A t \in 1..Len(args.spectrogram[1]) :
               LET candidates == C19_Candidates(t)
                   count == C19_Count(candidates)
                   bands == C28_EmittedBands(t)
                   emitted == C28_EmittedCount(t)
                   allEqual == C28_AllEqual(candidates)
               IN  /\ emitted = Cardinality(bands)
                   /\ emitted <= count
                   /\ count <= 6
                   /\ \A b \in bands : \A c \in 1..6 :
                          candidates[c] >= candidates[b] => c \in bands
                   /\ count = 1 => emitted = 0
                   /\ (count >= 1 /\ C28_SumExact(candidates))
                          => /\ emitted < count
                             /\ emitted <= 5
                             /\ allEqual => emitted = 0
                   /\ (~allEqual /\ C28_MeanExact(candidates))
                          => C28_Largest(candidates) \subseteq bands

\* a column of three equal candidates that emits nothing next to a column
\* whose largest candidate alone is emitted
C28_Witness ==
    /\ PeaksCall /\ Succeeded
    /\ Len(args.spectrogram[1]) >= 2
    /\ C19_Count(C19_Candidates(1)) = 3
    /\ C28_AllEqual(C19_Candidates(1))
    /\ C28_EmittedCount(1) = 0
    /\ C28_MeanExact(C19_Candidates(2))
    /\ ~C28_AllEqual(C19_Candidates(2))
    /\ C28_EmittedBands(2) = C28_Largest(C19_Candidates(2))

ChainCall == op = "extractPeaks+createFingerprint"

C29_Peaks == ret.peaks.value[1]

C29_Pairs == ret.fingerprint[1].pairs

\* the window index of a peak extractPeaks returned
C29_Window(peak) == peak.time \div TimeDen

\* static_cast<uint32_t>(timeDelta * 10.0f) of pair k, before the mask
C29_TenTimesDelta(k) ==
    ((C29_Peaks[C29_Pairs[k][2]].time - C29_Peaks[C29_Pairs[k][1]].time) * 10) \div TimeDen

\* C29: when createFingerprint is given the output of extractPeaks, the peak
\* times are whole window indices, two peaks of the same window are never
\* paired, and the low 12 bits of every emitted hash are 10 times the
\* difference of the two window indices, a value below 4096 that the mask
\* leaves as it is.
C29_WindowDeltaInHash ==
    (ChainCall /\ ret.fingerprint # NotRun)
        => /\ \A i \in 1..Len(C29_Peaks) :
                  /\ C29_Peaks[i].time % TimeDen = 0
                  /\ C29_Window(C29_Peaks[i]) \in 0..(Len(args.spectrogram[1]) - 1)
           /\ \A k \in 1..Len(C29_Pairs) :
                  LET anchor == C29_Peaks[C29_Pairs[k][1]]
                      target == C29_Peaks[C29_Pairs[k][2]]
                  IN  /\ C29_Window(anchor) # C29_Window(target)
                      /\ C29_TenTimesDelta(k)
                             = 10 * (C29_Window(target) - C29_Window(anchor))
                      /\ C29_TenTimesDelta(k) < 4096
                      /\ C11_Bits11to0(ret.fingerprint[1].hashes[k]) = C29_TenTimesDelta(k)
                      /\ \E entry \in {ret.fingerprint[1].result.value[1]
                                           [ret.fingerprint[1].hashes[k]][n] :
                                       n \in 1..Len(ret.fingerprint[1].result.value[1]
                                                        [ret.fingerprint[1].hashes[k]])} :
                             entry.hash = ret.fingerprint[1].hashes[k]

\* a run whose first window emits two peaks, which are scanned as anchor and
\* target but not paired, and whose pairs span one, two and three windows
C29_Witness ==
    /\ ChainCall /\ ret.fingerprint # NotRun /\ ret.fingerprint[1].result.success
    /\ Len(C29_Peaks) >= 2
    /\ C29_Peaks[1].time = C29_Peaks[2].time
    /\ <<1, 2>> \in ret.fingerprint[1].visited
    /\ \A d \in 1..3 : \E k \in 1..Len(C29_Pairs) : C29_TenTimesDelta(k) = 10 * d
    /\ \E i, j \in 1..Len(C29_Peaks) :
           C29_Window(C29_Peaks[j]) - C29_Window(C29_Peaks[i]) = 4

\* the peaks extractPeaks returns for a spectrogram, none when it fails
C30_Peaks(spectrogram) ==
    LET result == extractPeaks(spectrogram)
    IN  IF result.success THEN result.value[1] ELSE <<>>

\* the spectrogram made of the first k columns
C30_FirstColumns(spectrogram, k) ==
    [f \in 1..Len(spectrogram) |-> SubSeq(spectrogram[f], 1, k)]

\* C30: extractPeaks treats the columns independently: the peaks of the
\* first k columns of a spectrogram are the peaks of the spectrogram whose
\* time is below k, in the same order, a prefix of its peak sequence.
C30_ColumnsIndependent ==
    C19_Scanned
        => \A k \in 1..Len(args.spectrogram[1]) :
               LET first == C30_Peaks(C30_FirstColumns(args.spectrogram, k))
               IN  /\ first = SelectSeq(C19_Emitted, LAMBDA peak : peak.time < k * TimeDen)
                   /\ Len(first) <= Len(C19_Emitted)
                   /\ first = SubSeq(C19_Emitted, 1, Len(first))

\* a spectrogram of two columns that both emit a peak, the first with
\* candidates whose average is below that of the second
C30_Witness ==
    /\ PeaksCall /\ Succeeded
    /\ Len(args.spectrogram[1]) = 2
    /\ C28_EmittedCount(1) >= 1
    /\ C28_EmittedCount(2) >= 1
    /\ Len(C30_Peaks(C30_FirstColumns(args.spectrogram, 1))) = C28_EmittedCount(1)
    /\ C19_Sum(C19_Candidates(1), 6) * C19_Count(C19_Candidates(2))
           < C19_Sum(C19_Candidates(2), 6) * C19_Count(C19_Candidates(1))
====
